---------------------------- MODULE Spec2Model ----------------------------
(***************************************************************************)
(* A model of the GitHub statistics collectors of bitpulse/github-data.    *)
(*                                                                         *)
(* Part I   : RateLimiter and BaseCollector._make_api_call, driven by the  *)
(*            call pipeline of RepositoryStatsCollector.collect            *)
(*            (src/src/collectors/base_collector.py, repository.py).       *)
(*            Specification SpecRL, and SpecRLFair for liveness.           *)
(*                                                                         *)
(* Part II  : the orchestrators collect_all_repositories /                 *)
(*            collect_all_repos and the per-repository collection of       *)
(*            crypto_github_collector_v4.py ("v4"),                        *)
(*            crypto_github_collector.py ("v1") and main_crypto.py with    *)
(*            RepositoryStatsCollector ("main").  Specifications SpecOrch, *)
(*            SpecCollect, SpecCommitFaults, SpecFaults, SpecDelta,        *)
(*            SpecScenario and SpecTier differ in the registry, in the     *)
(*            number of runs and in the answers the remote API and         *)
(*            the store may give.  The periodic scheduler of               *)
(*            run_continuous / run_scheduler is part of them.              *)
(*                                                                         *)
(* Part III : the contributor cache of crypto_github_collector_v4.py       *)
(*            (_store_basic_contributor_info, update_contributor_profiles).*)
(*            Specifications SpecCache and SpecListing, and SpecCacheFair  *)
(*            for repeated passes of update_contributor_profiles.          *)
(*                                                                         *)
(* Part IV  : the daily aggregation of ChartDataAggregator                 *)
(*            (src/src/analysis/chart_aggregator.py) and of                *)
(*            crypto_github_collector_v4.py / crypto_github_collector.py.  *)
(*            Specification SpecAgg.                                       *)
(*                                                                         *)
(* Part V   : the construction of the orchestrator from the project        *)
(*            catalog (_load_crypto_repositories, _parse_github_url).      *)
(*            Specifications SpecLoad and SpecParse.                       *)
(*                                                                         *)
(* Part VI  : the steps of one collection and the timestamp of its         *)
(*            snapshot.  Specification SpecStamp.                          *)
(*                                                                         *)
(* Part VII : collect_all_repos of main.py.  Specification SpecAllRepos.   *)
(*                                                                         *)
(* Part VIII: the sliding-window limiter _check_rate_limit of              *)
(*            crypto_github_collector.py.  Specification SpecSliding.      *)
(*                                                                         *)
(* Part IX  : the contributor-activity ranking of a snapshot               *)
(*            (_get_active_contributors).  Specification SpecRanking.      *)
(*                                                                         *)
(* SpecRun and SpecContinuous (Part II) are the orchestrators with the     *)
(* calls that follow the tiers and with the end of run_continuous;         *)
(* SpecContinuous carries the fairness of a single thread.                 *)
(*                                                                         *)
(* Time is kept relative: a request timestamp is stored as its age         *)
(* (now - req_time), in ticks, saturated at Window, because the code only  *)
(* ever compares now - req_time with the window.                           *)
(***************************************************************************)
EXTENDS Integers, Sequences, FiniteSets, TLC

VARIABLES
    requests,     \* RateLimiter.requests, as ages of the stored timestamps
    recorded,     \* history: ages of all record_request() timestamps still
                  \* younger than the window; in Part VIII the ages of the
                  \* moments at which _check_rate_limit released a call
    cpc,          \* position of collect() in CollectOps (0: not collecting)
    mpc,          \* position inside _make_api_call: "wait" or "call"
    retries,      \* history: retries of the operation at cpc (saturating)
    unrecorded,   \* history: remote requests issued with no record_request
    collected,    \* history: how the last collect() ended
    prog,         \* which program runs: "v4", "v1" or "main"
    crypto_repositories,  \* the registry: sequence of targets
    running,      \* self.running, cleared by the signal handler
    failed_repos, \* self.failed_repos (v4)
    store,        \* the raw snapshot collection, in insertion order
    pc,           \* position of the orchestrator
    idx,          \* index of the next target in the current tier
    runs,         \* runs started so far
    attempt,      \* history: 1 while the current target is being retried
    visited,      \* history: registry positions whose collection was
                  \* started in the current run, in order
    budget,       \* history: remaining budget read after the primary tier
    last,         \* history: the last collection attempt
    pending,      \* snapshots collected and not yet handed to insert_one /
                  \* save_data (each with its history flag `masked`)
    job_due,      \* the scheduled job is due (its next_run has passed)
    masked,       \* history: a persisted snapshot holds a metric that a
                  \* reported rate-limit exhaustion turned into 0
    depth,        \* CONTRIBUTOR_PROFILE_DEPTH: "basic" or "full"
    api_listing,  \* the contributor listing of the repository of
                  \* SpecListing
    contributors, \* the contributors collection, by username
    cursor,       \* usernames the running update_contributor_profiles pass
                  \* still has to process
    fetched,      \* history: age of the last successful get_user(username)
    event,        \* history: the last operation on the contributor cache
    repo_stats,   \* the raw snapshot collection the aggregation reads, in
                  \* the order the store returns it (insertion order)
    daily_repo_stats,  \* the daily aggregates, by _id
    now,          \* the clock of the aggregation, in ticks
    agg_event,    \* history: the last operation on the two collections
    projects,     \* the crypto_project catalog: for each project its
                  \* coin_id and its links.repos_url.github list
    exit_status,  \* << >> while the process lives, <<n>> after sys.exit(n)
    collection,   \* the collection of one snapshot, step by step: its
                  \* position, its target, the values fetched, the local
                  \* variable `now`, and (history) the times of its
                  \* first fetch and of the start of its activity fetches;
                  \* in Part IX its position, the commit listing, the
                  \* ranking and the activity fields of the snapshot
    tracking,     \* ENABLE_CONTRIBUTOR_TRACKING
    connected,    \* the connection to the store (self.mongo_client) is open
    trail         \* history: what the current run has called after its
                  \* tiers, each call with the number of targets visited
                  \* before it

rlvars == <<requests, recorded, cpc, mpc, retries, unrecorded, collected>>
orchvars == <<prog, crypto_repositories, running, failed_repos, store, pc,
              idx, runs, attempt, visited, budget, last, pending, job_due,
              masked>>
cachevars == <<depth, api_listing, contributors, cursor, fetched, event>>
aggvars == <<repo_stats, daily_repo_stats, now, agg_event>>
procvars == <<projects, exit_status, collection, tracking, connected,
              trail>>
vars == <<rlvars, orchvars, cachevars, aggvars, procvars>>

---------------------------------------------------------------------------
(* Bounds of the model *)

\* max_requests = int(max_requests_per_hour * buffer), scaled down
MaxRequests == 2
\* window = timedelta(hours=1), in ticks
Window == 3
\* saturation of the retry history counter
RetryCap == 2
\* saturation of the unrecorded-request history counter
GhostCap == 2

\* reset time reported with a rate-limit error, relative to now, in ticks;
\* -2 is a reset time more than one tick in the past
ResetOffsets == {-2, 0, 1}

Min(a, b) == IF a < b THEN a ELSE b
Max(a, b) == IF a > b THEN a ELSE b

---------------------------------------------------------------------------
(* RateLimiter *)

\* ages after d more ticks; an age of Window stands for "Window or more"
Elapse(reqs, d) == [i \in DOMAIN reqs |-> Min(reqs[i] + d, Window)]

\* wait_if_needed, line 27: keep req_time with now - req_time < window
InWindow(reqs) == SelectSeq(reqs, LAMBDA a : a < Window)

\* max(self.requests), the newest timestamp (mutant of OldestAge)
NewestAge(reqs) ==
    CHOOSE a \in {reqs[i] : i \in DOMAIN reqs} :
        \A j \in DOMAIN reqs : reqs[j] >= a

\* min(self.requests) is the oldest timestamp: the largest age
OldestAge(reqs) ==
    CHOOSE a \in {reqs[i] : i \in DOMAIN reqs} :
        \A j \in DOMAIN reqs : reqs[j] <= a

\* the capacity test written with > instead of >= (mutant of WaitSeconds)
WaitSecondsOffByOne(reqs) ==
    IF Len(InWindow(reqs)) > MaxRequests
    THEN LET w == Window - OldestAge(InWindow(reqs))
         IN  IF w > 0 THEN w ELSE 0
    ELSE 0

\* wait_if_needed, lines 30-38: seconds slept (0 when below capacity)
WaitSeconds(reqs) ==
    IF Len(InWindow(reqs)) >= MaxRequests
    THEN LET w == Window - OldestAge(InWindow(reqs))
         IN  IF w > 0 THEN w ELSE 0
    ELSE 0

\* wait_if_needed: the list after the call returns (pruned, then aged by
\* the sleep; the list is not pruned again after the sleep)
WaitIfNeeded(reqs) == Elapse(InWindow(reqs), WaitSeconds(reqs))

\* record_request: append datetime.utcnow()
RecordRequest(reqs) == Append(reqs, 0)

---------------------------------------------------------------------------
(* RepositoryStatsCollector.collect: the remote fetches in program order.  *)
(* gated: made through _make_api_call.  on_error: "raise" ends collect     *)
(* with the exception, "default" is a try/except returning 0 / []/ {}.     *)
(* skip: the following fetches of the same try block, skipped on error.    *)

Op(n, g, e, s) == [name |-> n, gated |-> g, on_error |-> e, skip |-> s]

CollectOps == <<
    Op("get_repo",            TRUE,  "raise",   0),
    Op("commits_24h",         TRUE,  "default", 1),
    Op("commits_24h.total",   FALSE, "default", 0),
    Op("commits_7d",          TRUE,  "default", 1),
    Op("commits_7d.total",    FALSE, "default", 0),
    Op("commits_30d",         TRUE,  "default", 1),
    Op("commits_30d.total",   FALSE, "default", 0),
    Op("contributors_7d",     TRUE,  "default", 1),
    Op("contributors_7d.it",  FALSE, "default", 0),
    Op("contributors_30d",    TRUE,  "default", 1),
    Op("contributors_30d.it", FALSE, "default", 0),
    Op("pulls_open",          TRUE,  "default", 3),
    Op("pulls_open.total",    FALSE, "default", 2),
    Op("pulls_closed",        TRUE,  "default", 1),
    Op("pulls_closed.it",     FALSE, "default", 0),
    Op("issues_open",         TRUE,  "default", 3),
    Op("issues_open.total",   FALSE, "default", 2),
    Op("issues_closed",       TRUE,  "default", 1),
    Op("issues_closed.it",    FALSE, "default", 0),
    Op("releases",            TRUE,  "default", 1),
    Op("releases.total",      FALSE, "default", 0),
    Op("get_topics",          FALSE, "raise",   0) >>

NumOps == Len(CollectOps)

\* position after the fetch at p succeeded / failed
AfterOk(p) == IF p = NumOps THEN 0 ELSE p + 1
AfterError(p) ==
    IF CollectOps[p].on_error = "raise" THEN 0
    ELSE IF p + CollectOps[p].skip >= NumOps THEN 0
    ELSE p + CollectOps[p].skip + 1

Bump(n, cap) == Min(n + 1, cap)

\* no collection attempt was made yet
NoAttempt == [key |-> 0, known_failed |-> FALSE, calls |-> 0,
              result |-> "none", returned |-> 0, cause |-> "none"]

---------------------------------------------------------------------------
(* Part II: registry, snapshots and deltas *)

\* targets of the registry
NumTargets == 2
\* distinct repositories (owner/name)
NumKeys == 2
\* runs of the orchestrator in one process: in the specifications with one
\* fixed registry, and in the one over all registries
MaxRuns == 2
OrchRuns == 1
\* largest counter value the remote API reports
MaxCount == 1

\* `remaining > len(secondary_repos) + 100`, `remaining > 100`
Margin == 100
\* `rate_limit.core.remaining < 50`
LowBudget == 50
\* `if i % 5 == 0`
CheckEvery == 5

Progs == {"v4", "v1", "main"}
Keys == 1..NumKeys

\* the keys number the repositories in the order of their first appearance
InOrderOfAppearance(reg) ==
    \A i \in DOMAIN reg :
        \A k \in 1..(reg[i].key - 1) : \E j \in 1..(i - 1) : reg[j].key = k

\* every registry of 1..NumTargets targets; a repository may be listed
\* more than once (v4, v1), is_primary is `i == 0` of its project's URL list
Registries ==
    { reg \in UNION { [1..n -> [key : Keys, is_primary : BOOLEAN]] :
                          n \in 1..NumTargets } :
        InOrderOfAppearance(reg) }

DistinctKeys(reg) ==
    Cardinality({reg[i].key : i \in DOMAIN reg}) = Len(reg)

Positions(reg) == [i \in 1..Len(reg) |-> i]

\* all positions, unfiltered (mutant of PrimaryRepos)
PrimaryReposUnfiltered(reg) == Positions(reg)

\* primary_repos = [r for r in self.crypto_repositories if r['is_primary']]
PrimaryRepos(reg) ==
    SelectSeq(Positions(reg), LAMBDA i : reg[i].is_primary)

\* secondary_repos = [r for r in ... if not r['is_primary']]
SecondaryRepos(reg) ==
    SelectSeq(Positions(reg), LAMBDA i : ~reg[i].is_primary)

RawCounters ==
    {"stars", "forks", "watchers", "open_issues", "size_kb", "network_count"}

\* the keys the delta loop runs over
DeltaKeys(p) ==
    IF p = "main"
    THEN {"stars", "forks", "watchers", "open_issues", "size_kb"}
    ELSE {"stars", "forks", "watchers", "open_issues"}

\* f'{key}_change', f'{key}_growth_rate'
ChangeName(c) ==
    CASE c = "stars"         -> "stars_change"
      [] c = "forks"         -> "forks_change"
      [] c = "watchers"      -> "watchers_change"
      [] c = "open_issues"   -> "open_issues_change"
      [] c = "size_kb"       -> "size_kb_change"
      [] c = "network_count" -> "network_count_change"

RateName(c) ==
    CASE c = "stars"         -> "stars_growth_rate"
      [] c = "forks"         -> "forks_growth_rate"
      [] c = "watchers"      -> "watchers_growth_rate"
      [] c = "open_issues"   -> "open_issues_growth_rate"
      [] c = "size_kb"       -> "size_kb_growth_rate"
      [] c = "network_count" -> "network_count_growth_rate"

Abs(n) == IF n < 0 THEN -n ELSE n

RECURSIVE Gcd(_, _)
Gcd(a, b) == IF b = 0 THEN a ELSE Gcd(b, a % b)

\* n / d for d > 0 (Python true division), as the fraction in lowest terms
Ratio(n, d) ==
    LET g == Gcd(Abs(n), d)
    IN  <<n \div g, d \div g>>

\* counter vectors the remote API may report: the star count takes every
\* value up to MaxCount, the other counters move the opposite way
RepoReplies ==
    { [c \in RawCounters |-> IF c = "stars" THEN v ELSE MaxCount - v] :
        v \in 0..MaxCount }

\* the latest snapshot of any repository (mutant of Previous)
PreviousAnyRepo(st, k) ==
    IF st = << >> THEN << >> ELSE <<st[Len(st)]>>

\* the oldest snapshot of the repository (mutant of Previous)
PreviousOldest(st, k) ==
    LET mine == SelectSeq(st, LAMBDA s : s.key = k)
    IN  IF mine = << >> THEN << >> ELSE <<mine[1]>>

\* find_one({'repo.owner': owner, 'repo.name': name}, sort=[('timestamp', -1)])
\* as a sequence of length 0 (None) or 1.  Snapshots are inserted by one
\* sequential process right after their timestamp is taken, so the latest
\* timestamp is the last one inserted.
Previous(st, k) ==
    LET mine == SelectSeq(st, LAMBDA s : s.key = k)
    IN  IF mine = << >> THEN << >> ELSE <<mine[Len(mine)]>>

\* the difference taken the wrong way round (mutant of Change)
ChangeReversed(current_val, previous_val) == previous_val - current_val

\* current_val - previous_val
Change(current_val, previous_val) == current_val - previous_val

\* the stats of a new snapshot: the current counters, and for each delta key
\* present in both the change and, when the previous value is > 0, the
\* growth rate
CalculateDeltas(keys, current, previous) ==
    IF previous = << >> THEN current
    ELSE LET prev == previous[1].stats
             chg  == {c \in keys : c \in DOMAIN current /\ c \in DOMAIN prev}
             rt   == {c \in chg : prev[c] > 0}
         IN  [f \in DOMAIN current \cup {ChangeName(c) : c \in chg}
                                   \cup {RateName(c) : c \in rt} |->
                 IF f \in DOMAIN current THEN current[f]
                 ELSE IF \E c \in chg : f = ChangeName(c)
                      THEN LET c == CHOOSE c \in chg : f = ChangeName(c)
                           IN  Change(current[c], prev[c])
                      ELSE LET c == CHOOSE c \in rt : f = RateName(c)
                           IN  Ratio(Change(current[c], prev[c]), prev[c])]

---------------------------------------------------------------------------
(* Part II: one collection attempt of one target *)

\* an answer of the remote API: kind "ok", or "http" (GithubException with
\* a status), "rate_limited" (RateLimitExceededException, a GithubException
\* of status 403, or 429 for a secondary limit), "error" (anything else)
Reply(k, st, v) == [kind |-> k, status |-> st, value |-> v]

ZeroStats == [c \in RawCounters |-> 0]

\* what the remote API and the store may answer in a specification:
\* the answers of get_rate_limit, of get_repo, of a commit count fetch, of
\* get_topics, the reported reset offsets and whether insert_one succeeds
Env(stats, faults, commits, budgets, inserts) ==
    [ rate    |-> {Reply("ok", 200, b) : b \in budgets} \cup
                  {Reply(f, 0, 0) : f \in faults \cap {"rate_limited", "error"}},
      repo    |-> {Reply("ok", 200, v) : v \in stats} \cup
                  {Reply("http", 404, ZeroStats) : f \in faults \cap {"404"}} \cup
                  {Reply("http", 403, ZeroStats) : f \in faults \cap {"403"}} \cup
                  {Reply("http", 500, ZeroStats) : f \in faults \cap {"error"}} \cup
                  {Reply("rate_limited", 403, ZeroStats) : f \in faults \cap {"rate_limited"}} \cup
                  {Reply("rate_limited", 429, ZeroStats) : f \in faults \cap {"rate_limited"}},
      commits |-> commits,
      topics  |-> {Reply("ok", 200, 0)} \cup
                  {Reply("error", 0, 0) : f \in faults \cap {"error"}},
      reset   |-> ResetOffsets,
      insert  |-> inserts ]

\* the answers one collection attempt of program p may meet.  Only v4 reads
\* the remote rate limit inside an attempt (_check_rate_limit, where a low
\* remaining budget only causes a sleep, so one successful answer stands for
\* all), only main reads the topics and a third commit count.
Inputs(env, p) ==
    LET all == [ rate   : IF p = "v4"
                          THEN {IF r.kind = "ok" THEN Reply("ok", 200, Margin)
                                ELSE r : r \in env.rate}
                          ELSE {Reply("ok", 200, Margin)},
                 repo   : env.repo,
                 c24    : env.commits,
                 c7     : env.commits,
                 c30    : IF p = "main" THEN env.commits
                          ELSE {Reply("ok", 200, 0)},
                 topics : IF p = "main" THEN env.topics
                          ELSE {Reply("ok", 200, 0)},
                 reset  : env.reset ]
        first(S) == CHOOSE x \in S : TRUE
        \* a reset time is reported only with rate-limit exhaustion
        limited(in) == "rate_limited" \in {in.rate.kind, in.repo.kind}
    IN  { in \in all : limited(in) \/ in.reset = first(env.reset) }

Res(r, n, add, d, m) ==
    [result |-> r, calls |-> n, fail_add |-> add, data |-> d, masked |-> m]

\* except RateLimitExceededException: sleep(wait_seconds + 1), then the
\* function calls itself; time.sleep raises ValueError for a negative length
Handler(in, n) ==
    IF in.reset + 1 < 0
    THEN Res("crash", n, FALSE, << >>, FALSE)
    ELSE Res("retry", n, FALSE, << >>, FALSE)

\* _count_commits_since: totalCount, and 0 on any exception
CountCommits(r) == IF r.kind = "ok" THEN r.value ELSE 0

Snapshot(k, st, act) == [key |-> k, stats |-> st, activity |-> act]

\* the 404/403 test without the bookkeeping (mutant of PermanentFailure)
PermanentFailureNotRemembered(in, n) ==
    Res("failed", n, FALSE, << >>, FALSE)

\* lines 293-300: the target is added to failed_repos, None is returned
PermanentFailure(in, n) ==
    Res("failed", n, TRUE, << >>, FALSE)

\* crypto_github_collector_v4.py, collect_repository_stats
AttemptV4(t, in, fr, st) ==
    IF t.key \in fr THEN Res("skipped", 0, FALSE, << >>, FALSE)
    ELSE IF in.rate.kind = "rate_limited" THEN Handler(in, 1)
    ELSE IF in.rate.kind # "ok" THEN Res("error", 1, FALSE, << >>, FALSE)
    ELSE IF in.repo.kind # "ok" /\ in.repo.status \in {404, 403}
         THEN PermanentFailure(in, 2)
    ELSE IF in.repo.kind = "rate_limited" THEN Handler(in, 2)
    ELSE IF in.repo.kind # "ok" THEN Res("error", 2, FALSE, << >>, FALSE)
    ELSE Res("data", 6, FALSE,
             << Snapshot(t.key,
                         CalculateDeltas(DeltaKeys("v4"), in.repo.value,
                                         Previous(st, t.key)),
                         [commits_last_24h |-> CountCommits(in.c24),
                          commits_last_7d  |-> CountCommits(in.c7)]) >>,
             in.c24.kind = "rate_limited" \/ in.c7.kind = "rate_limited")

\* crypto_github_collector.py, collect_repository_stats
AttemptV1(t, in, fr, st) ==
    IF in.repo.kind = "rate_limited" THEN Handler(in, 1)
    ELSE IF in.repo.kind # "ok" THEN Res("error", 1, FALSE, << >>, FALSE)
    ELSE Res("data", 3, FALSE,
             << Snapshot(t.key,
                         CalculateDeltas(DeltaKeys("v1"), in.repo.value,
                                         Previous(st, t.key)),
                         [commits_last_24h |-> CountCommits(in.c24),
                          commits_last_7d  |-> CountCommits(in.c7)]) >>,
             in.c24.kind = "rate_limited" \/ in.c7.kind = "rate_limited")

\* RepositoryStatsCollector.collect, as main_crypto.py calls it: the
\* repository fetch goes through _make_api_call, which retries on a
\* rate-limit error and re-raises everything else
AttemptMain(t, in, fr, st) ==
    IF in.repo.kind = "rate_limited"
    THEN IF in.reset + 1 < 0
         THEN Res("raised", 1, FALSE, << >>, FALSE)
         ELSE Res("retry", 1, FALSE, << >>, FALSE)
    ELSE IF in.repo.kind # "ok" THEN Res("raised", 1, FALSE, << >>, FALSE)
    ELSE IF in.topics.kind # "ok" THEN Res("raised", NumOps, FALSE, << >>, FALSE)
    ELSE Res("data", NumOps, FALSE,
             << Snapshot(t.key,
                         CalculateDeltas(DeltaKeys("main"), in.repo.value,
                                         Previous(st, t.key)),
                         [commits_last_24h |-> CountCommits(in.c24),
                          commits_last_7d  |-> CountCommits(in.c7),
                          commits_last_30d |-> CountCommits(in.c30)]) >>,
             \/ in.c24.kind = "rate_limited"
             \/ in.c7.kind = "rate_limited"
             \/ in.c30.kind = "rate_limited")

Attempt(p, t, in, fr, st) ==
    CASE p = "v4"   -> AttemptV4(t, in, fr, st)
      [] p = "v1"   -> AttemptV1(t, in, fr, st)
      [] p = "main" -> AttemptMain(t, in, fr, st)

\* --- the contributor cache (Part III): data

\* MAX_CONTRIBUTORS_PER_REPO and CONTRIBUTOR_CACHE_DAYS (the cache
\* duration, in ticks) come from the environment; MaxLimit bounds the
\* `limit` argument of update_contributor_profiles
MAX_CONTRIBUTORS_PER_REPO == 2
CONTRIBUTOR_CACHE_DAYS == 2
MaxLimit == 2

Depths == {"basic", "full"}

\* the age of a timestamp that is not there ('profile_updated' not in the
\* record; no get_user so far)
Never == -1

\* ages are saturated at the cache duration: the code only compares
\* now - profile_updated with it
Older(age) ==
    IF age = Never THEN Never
    ELSE IF age < CONTRIBUTOR_CACHE_DAYS THEN age + 1 ELSE age

\* find_one({'username': u}) finds nothing.  Of a record, the fields the
\* code reads or queries are kept: needs_update, profile_updated, and
\* profile_error; the profile itself is in the record iff fetched[u] is
\* not Never
NoRecord ==
    [exists |-> FALSE, needs_update |-> FALSE, profile_updated |-> Never,
     profile_error |-> FALSE]

Event(op, username, ok, written) ==
    [op |-> op, username |-> username, ok |-> ok, written |-> written]

\* the cache before any observation, for the usernames the remote API knows
CacheIdle(dp, usernames, listing) ==
    /\ depth = dp
    /\ api_listing = listing
    /\ contributors = [u \in usernames |-> NoRecord]
    /\ cursor = << >>
    /\ fetched = [u \in usernames |-> Never]
    /\ event = Event("none", 0, TRUE, << >>)

\* --- the daily aggregation (Part IV): data

\* a day has TicksPerDay ticks; time runs up to MaxTime; at most
\* MaxSnapshots raw snapshots are stored; DaysBack bounds the days_back
\* argument of ChartDataAggregator.create_daily_aggregations
TicksPerDay == 2
MaxTime == 3
MaxSnapshots == 2
DaysBack == 1

\* the aggregation collections before any snapshot
AggIdle ==
    /\ repo_stats = << >>
    /\ daily_repo_stats = << >>
    /\ now = 0
    /\ agg_event = [op |-> "none", ok |-> TRUE, days_back |-> 0, nth |-> 1,
                    store_ok |-> TRUE, results |-> 0, returned |-> {}]

\* no collection is under way
NoCollection ==
    [step |-> "idle", target |-> << >>, stars |-> 0, fetched_at |-> 0,
     activity_at |-> 0, local_now |-> 0]

\* a process whose construction is not modelled: no catalog, no exit
ProcWith(enabled) ==
    /\ projects = << >>
    /\ exit_status = << >>
    /\ collection = NoCollection
    /\ tracking = enabled
    /\ connected = TRUE
    /\ trail = << >>

\* ENABLE_CONTRIBUTOR_TRACKING defaults to 'true'
ProcIdle == ProcWith(TRUE)

\* the orchestrator variables before any run
OrchIdle(p, registry) ==
    /\ prog = p
    /\ crypto_repositories = registry
    /\ running = TRUE
    /\ failed_repos = {}
    /\ store = << >>
    /\ pc = "idle"
    /\ idx = 1
    /\ runs = 0
    /\ attempt = 0
    /\ visited = << >>
    /\ budget = -1
    /\ last = NoAttempt
    /\ pending = << >>
    /\ job_due = FALSE
    /\ masked = FALSE

InitRL ==
    /\ requests = << >>
    /\ recorded = << >>
    /\ cpc = 0
    /\ mpc = "wait"
    /\ retries = 0
    /\ unrecorded = 0
    /\ collected = "none"
    /\ OrchIdle("main", << >>)
    /\ CacheIdle("basic", {}, << >>)
    /\ AggIdle
    /\ ProcIdle

\* time passes (a call or a sleep takes longer, or the collector is idle)
Tick ==
    /\ UNCHANGED <<orchvars, cachevars, aggvars, procvars>>
    /\ requests' = Elapse(requests, 1)
    /\ recorded' = InWindow(Elapse(recorded, 1))
    /\ UNCHANGED <<cpc, mpc, retries, unrecorded, collected>>

\* collect(owner, repo_name) is called
CollectBegin ==
    /\ UNCHANGED <<orchvars, cachevars, aggvars, procvars>>
    /\ cpc = 0
    /\ cpc' = 1
    /\ mpc' = "wait"
    /\ retries' = 0
    /\ collected' = "running"
    /\ UNCHANGED <<requests, recorded, unrecorded>>

\* the fetch at cpc ended without / with an exception reaching collect
Proceed(ok) ==
    LET nxt == IF ok THEN AfterOk(cpc) ELSE AfterError(cpc)
    IN  /\ cpc' = nxt
        /\ mpc' = "wait"
        /\ retries' = 0
        /\ collected' =
              IF nxt # 0 THEN "running"
              ELSE IF ok \/ CollectOps[cpc].on_error = "default"
                   THEN "data" ELSE "raised"

\* _make_api_call, line 65: self.rate_limiter.wait_if_needed()
MakeApiCallWait ==
    /\ UNCHANGED <<orchvars, cachevars, aggvars, procvars>>
    /\ cpc # 0 /\ CollectOps[cpc].gated /\ mpc = "wait"
    /\ requests' = WaitIfNeeded(requests)
    /\ recorded' = InWindow(Elapse(recorded, WaitSeconds(requests)))
    /\ mpc' = "call"
    /\ UNCHANGED <<cpc, retries, unrecorded, collected>>

\* _make_api_call, lines 67-70: the call returns, the request is recorded
MakeApiCallOk ==
    /\ UNCHANGED <<orchvars, cachevars, aggvars, procvars>>
    /\ cpc # 0 /\ CollectOps[cpc].gated /\ mpc = "call"
    /\ requests' = RecordRequest(requests)
    /\ recorded' = RecordRequest(recorded)
    /\ Proceed(TRUE)
    /\ UNCHANGED unrecorded

\* _make_api_call, lines 72-78: RateLimitExceededException; sleep until the
\* reported reset time plus one, then call _make_api_call again.
\* time.sleep raises ValueError for a negative length.
MakeApiCallRateLimited ==
    /\ UNCHANGED <<orchvars, cachevars, aggvars, procvars>>
    /\ cpc # 0 /\ CollectOps[cpc].gated /\ mpc = "call"
    /\ unrecorded' = Bump(unrecorded, GhostCap)
    /\ \E resetIn \in ResetOffsets :
          IF resetIn + 1 < 0
          THEN /\ Proceed(FALSE)
               /\ UNCHANGED <<requests, recorded>>
          ELSE /\ requests' = Elapse(requests, resetIn + 1)
               /\ recorded' = InWindow(Elapse(recorded, resetIn + 1))
               /\ mpc' = "wait"
               /\ retries' = Bump(retries, RetryCap)
               /\ UNCHANGED <<cpc, collected>>

\* _make_api_call, lines 80-86: any other exception is logged and re-raised
MakeApiCallError ==
    /\ UNCHANGED <<orchvars, cachevars, aggvars, procvars>>
    /\ cpc # 0 /\ CollectOps[cpc].gated /\ mpc = "call"
    /\ unrecorded' = Bump(unrecorded, GhostCap)
    /\ Proceed(FALSE)
    /\ UNCHANGED <<requests, recorded>>

\* a fetch made on the PyGithub object directly (totalCount, iteration of a
\* paginated list, get_topics): no wait_if_needed, no record_request
DirectFetch ==
    /\ UNCHANGED <<orchvars, cachevars, aggvars, procvars>>
    /\ cpc # 0 /\ ~CollectOps[cpc].gated
    /\ unrecorded' = Bump(unrecorded, GhostCap)
    /\ \E ok \in BOOLEAN : Proceed(ok)
    /\ UNCHANGED <<requests, recorded>>

NextRL ==
    \/ Tick
    \/ CollectBegin
    \/ MakeApiCallWait
    \/ MakeApiCallOk
    \/ MakeApiCallRateLimited
    \/ MakeApiCallError
    \/ DirectFetch

SpecRL == InitRL /\ [][NextRL]_vars

\* The collector is a running sequential program: a step it can take, it
\* takes.  Which answer the remote API gives is not subject to fairness.
SpecRLFair ==
    /\ SpecRL
    /\ WF_vars(MakeApiCallWait)
    /\ WF_vars(MakeApiCallOk \/ MakeApiCallRateLimited \/ MakeApiCallError)
    /\ WF_vars(DirectFetch)

---------------------------------------------------------------------------
(* Part II: the orchestrator *)

\* the state after construction, for a program of Progs and a registry of
\* regs (in main_crypto.py the registry comes from a mapping whose keys are
\* distinct)
InitWith(regs) ==
    /\ requests = << >>
    /\ recorded = << >>
    /\ cpc = 0
    /\ mpc = "wait"
    /\ retries = 0
    /\ unrecorded = 0
    /\ collected = "none"
    /\ \E p \in Progs, reg \in regs :
          /\ p = "main" => DistinctKeys(reg)
          /\ OrchIdle(p, reg)
    /\ CacheIdle("basic", {}, << >>)
    /\ AggIdle
    /\ ProcIdle

InitOrch == InitWith(Registries)

\* _signal_handler: self.running = False
Signal ==
    /\ running
    /\ running' = FALSE
    /\ UNCHANGED <<rlvars, cachevars, aggvars, procvars, job_due, prog, crypto_repositories, failed_repos, store, pc,
                   idx, runs, attempt, visited, budget, last, pending,
                   masked>>

\* schedule.every(...).hours.do(...): the interval since the job was
\* scheduled, or since its last run returned, has passed (a trigger after
\* the last run that maxRuns allows starts nothing and is left out)
TriggerDue(maxRuns) ==
    /\ ~job_due
    /\ runs < maxRuns
    /\ pc # "crashed"
    /\ job_due' = TRUE
    /\ UNCHANGED <<rlvars, cachevars, aggvars, procvars, prog, crypto_repositories, running, failed_repos,
                   store, pc, idx, runs, attempt, visited, budget, last,
                   pending, masked>>

\* a due job is run wherever the program is, as a timer thread would
\* (mutant of RunPending)
RunPendingThreaded(p, due) == due

\* `while self.running: schedule.run_pending()`: the loop is reached when
\* the previous call of collect_all_repositories has returned, and
\* run_pending calls the job if it is due
RunPending(p, due) == p = "idle" /\ due

\* the scheduler loop never ends (mutant of LoopContinues)
LoopContinuesForever(flag) == TRUE

\* `while self.running:` of run_continuous / run_scheduler
LoopContinues(flag) == flag

\* collect_all_repositories is entered: by run_once, by run_continuous
\* ("run once immediately"), or by the scheduler while self.running
StartRun(maxRuns) ==
    /\ runs < maxRuns
    /\ IF runs = 0 THEN pc = "idle"
       ELSE LoopContinues(running) /\ RunPending(pc, job_due)
    /\ pc' = "primary"
    /\ idx' = 1
    /\ runs' = runs + 1
    /\ attempt' = 0
    /\ visited' = << >>
    /\ budget' = -1
    /\ trail' = << >>
    /\ UNCHANGED <<rlvars, cachevars, aggvars, projects, exit_status,
                   collection, tracking, connected, job_due, prog, crypto_repositories,
                   running, failed_repos, store, last, pending, masked>>

\* a collection that ended in an error is repeated as well (mutant of
\* Repeats)
RepeatsOnError(result) == result \in {"retry", "error", "raised"}

\* a collection is repeated for the same target only from the handler of
\* RateLimitExceededException, which calls the function again; any other
\* outcome is returned to the loop, which goes on to the next target
Repeats(result) == result = "retry"

\* the first half of the loop body for the target at registry position i:
\* one attempt of collect_repository_stats / collect.  A snapshot it returns
\* is held in `data` / `repo_data` until the second half
Visit(i, in) ==
    LET t == crypto_repositories[i]
        r == Attempt(prog, t, in, failed_repos, store)
    IN  /\ visited' = IF attempt = 0 THEN Append(visited, i) ELSE visited
        /\ failed_repos' = IF r.fail_add THEN failed_repos \cup {t.key}
                           ELSE failed_repos
        /\ last' = [key |-> t.key, known_failed |-> t.key \in failed_repos,
                    calls |-> r.calls, result |-> r.result,
                    returned |-> Len(r.data),
                    cause |-> IF r.fail_add THEN in.repo.kind ELSE "none"]
        /\ pending' = IF r.result = "data"
                      THEN Append(pending, [snap |-> r.data[1],
                                            masked |-> r.masked])
                      ELSE pending
        /\ IF Repeats(r.result)
           THEN /\ attempt' = 1
                /\ UNCHANGED <<pc, idx>>
           ELSE IF r.result = "crash"
                THEN /\ pc' = "crashed"
                     /\ UNCHANGED <<idx, attempt>>
                ELSE /\ idx' = IF r.result = "data" THEN idx ELSE idx + 1
                     /\ attempt' = 0
                     /\ pc' = pc
        /\ UNCHANGED <<rlvars, cachevars, aggvars, procvars, job_due, prog, crypto_repositories, running, store,
                       runs, budget, masked>>

\* insert_one comes before the next iteration (mutant of MayStartNext: the
\* snapshots are held back until two are collected)
MayStartNextBatched(held) == Len(held) < 2

\* the loop goes on to the next target (or leaves the tier) when the loop
\* body has handed its snapshot to insert_one / save_data
MayStartNext(held) == held = << >>

\* the second half of the loop body: insert_one(data) / save_data(repo_data),
\* the counters and the politeness sleep.  An exception of insert_one leaves
\* collect_all_repositories (v4, v1) or is caught and logged (main)
Persist(env) ==
    /\ pc \in {"primary", "secondary"}
    /\ pending # << >>
    /\ \E ok \in env.insert :
          /\ store' = IF ok
                      THEN store \o [j \in DOMAIN pending |-> pending[j].snap]
                      ELSE store
          /\ masked' = (masked \/ (ok /\ \E j \in DOMAIN pending :
                                              pending[j].masked))
          /\ IF ok \/ prog = "main"
             THEN pc' = pc /\ idx' = idx + Len(pending)
             ELSE pc' = "crashed" /\ idx' = idx
    /\ pending' = << >>
    /\ UNCHANGED <<rlvars, cachevars, aggvars, procvars, job_due, prog, crypto_repositories, running, failed_repos,
                   runs, attempt, visited, budget, last>>

\* the loops go on without looking at the flag (mutant of KeepsGoing)
KeepsGoingUnchecked(flag) == TRUE

\* `if not self.running: break` at the top of every iteration
KeepsGoing(flag) == flag

\* one iteration of `for repo_info in primary_repos`
PrimaryStep(env) ==
    /\ pc = "primary"
    /\ MayStartNext(pending)
    /\ KeepsGoing(running)
    /\ idx + Len(pending) <= Len(PrimaryRepos(crypto_repositories))
    /\ \E in \in Inputs(env, prog) :
          Visit(PrimaryRepos(crypto_repositories)[idx + Len(pending)], in)

\* the margin required on both sides of the test (mutant of EnoughBudget)
EnoughBudgetMarginTwice(p, remaining, nsec) ==
    remaining - Margin > nsec + Margin

\* the test guarding the secondary tier
EnoughBudget(p, remaining, nsec) ==
    IF p = "v4" THEN remaining > Margin
    ELSE remaining > nsec + Margin

\* the reset offsets that may come with an answer: a reset time is reported
\* only with rate-limit exhaustion
ResetsWith(env, rate) ==
    IF rate.kind = "rate_limited" THEN env.reset
    ELSE {CHOOSE x \in env.reset : TRUE}

\* the primary loop is left (exhausted, or `if not self.running: break`),
\* the remaining budget is read and the secondary tier is entered or skipped.
\* v4 and v1 read it with github.get_rate_limit(), main through
\* _make_api_call; an exception here is caught nowhere.
BudgetCheck(env) ==
    /\ pc = "primary"
    /\ pending = << >>
    /\ ~KeepsGoing(running) \/ idx > Len(PrimaryRepos(crypto_repositories))
    /\ \E rate \in env.rate : \E reset \in ResetsWith(env, rate) :
          IF rate.kind = "ok"
          THEN /\ budget' = rate.value
               /\ pc' = IF EnoughBudget(prog, rate.value,
                                        Len(SecondaryRepos(crypto_repositories)))
                        THEN "secondary" ELSE "finish"
               /\ idx' = 1
               /\ attempt' = 0
          ELSE IF prog = "main" /\ rate.kind = "rate_limited"
                                /\ reset + 1 >= 0
               THEN UNCHANGED <<budget, pc, idx, attempt>>
               ELSE /\ pc' = "crashed"
                    /\ UNCHANGED <<budget, idx, attempt>>
    /\ UNCHANGED <<rlvars, cachevars, aggvars, procvars, job_due, prog, crypto_repositories, running, failed_repos,
                   store, runs, visited, last, pending, masked>>

\* one iteration of `for repo_info in secondary_repos`; v4 reads the budget
\* again at every CheckEvery-th target and leaves the loop below LowBudget
SecondaryStep(env) ==
    /\ pc = "secondary"
    /\ MayStartNext(pending)
    /\ KeepsGoing(running)
    /\ idx + Len(pending) <= Len(SecondaryRepos(crypto_repositories))
    /\ IF prog = "v4" /\ attempt = 0 /\ (idx - 1) % CheckEvery = 0
       THEN \E rate \in env.rate :
               IF rate.kind # "ok" \/ rate.value < LowBudget
               THEN /\ pc' = IF rate.kind = "ok" THEN "finish" ELSE "crashed"
                    /\ UNCHANGED <<rlvars, cachevars, aggvars, procvars, job_due, prog, crypto_repositories, running,
                                   failed_repos, store, idx, runs, attempt,
                                   visited, budget, last, pending,
                                   masked>>
               ELSE \E in \in Inputs(env, prog) :
                       Visit(SecondaryRepos(crypto_repositories)[idx + Len(pending)],
                             in)
       ELSE \E in \in Inputs(env, prog) :
               Visit(SecondaryRepos(crypto_repositories)[idx + Len(pending)],
                             in)

\* the aggregation is left out when the secondary tier was skipped
\* (mutant of TriggersAggregation)
TriggersAggregationAfterSecondary(p, entered) == p # "main" /\ entered

\* `self.create_daily_aggregations()` stands after the two tiers of v4 and
\* v1, under no condition; collect_all_repos of main_crypto.py has no
\* such call
TriggersAggregation(p, entered) == p # "main"

\* `if ENABLE_CONTRIBUTOR_TRACKING: self.generate_contributor_summary()`
TriggersSummary(p, enabled) == p = "v4" /\ enabled

\* the calls that follow the tiers, as far as they are reached: the
\* aggregation, which raises when the store fails, and the summary, which
\* catches
AfterTiers(p, entered, enabled, store_ok, visits) ==
    (IF TriggersAggregation(p, entered)
     THEN <<[call |-> "create_daily_aggregations", visits |-> visits]>>
     ELSE << >>)
    \o (IF TriggersSummary(p, enabled)
           /\ (store_ok \/ ~TriggersAggregation(p, entered))
        THEN <<[call |-> "generate_contributor_summary",
                visits |-> visits]>>
        ELSE << >>)

\* after the tiers: the daily aggregation, the contributor summary, the
\* final rate-limit read, and the run returns
Finish(env) ==
    /\ pending = << >>
    /\ \/ pc = "finish"
       \/ /\ pc = "secondary"
          /\ \/ ~KeepsGoing(running)
             \/ idx > Len(SecondaryRepos(crypto_repositories))
    /\ \E store_ok \in env.insert :
          /\ trail' = trail \o AfterTiers(prog, pc = "secondary", tracking,
                                          store_ok, Len(visited))
          /\ IF ~store_ok /\ TriggersAggregation(prog, pc = "secondary")
             THEN pc' = "crashed" /\ UNCHANGED job_due
             ELSE \E rate \in env.rate : \E reset \in ResetsWith(env, rate) :
                     IF rate.kind = "ok"
                     THEN /\ pc' = "idle"
                          /\ job_due' = (job_due /\ runs = 1)
                     ELSE /\ UNCHANGED job_due
                          /\ IF prog = "main" /\ rate.kind = "rate_limited"
                                              /\ reset + 1 >= 0
                             THEN pc' = pc
                             ELSE pc' = "crashed"
    /\ UNCHANGED <<rlvars, cachevars, aggvars, projects, exit_status,
                   collection, tracking, connected, prog, crypto_repositories, running,
                   failed_repos, store, idx, runs, attempt, visited, budget,
                   last, pending, masked>>

NextOrchWith(env, maxRuns) ==
    \/ Signal
    \/ TriggerDue(maxRuns)
    \/ StartRun(maxRuns)
    \/ PrimaryStep(env)
    \/ Persist(env)
    \/ BudgetCheck(env)
    \/ SecondaryStep(env)
    \/ Finish(env)

\* remaining budgets the remote API may report: below LowBudget, and around
\* every threshold nsec + Margin
Budgets == {LowBudget - 1} \cup (Margin .. Margin + NumTargets + 1)

AllFaults == {"404", "403", "rate_limited", "error"}

FixedStats == {[c \in RawCounters |-> 1]}
FixedCommits == {Reply("ok", 200, 1)}

\* the orchestrators against a remote API and a store that may fail
OrchEnv == Env(FixedStats, AllFaults, FixedCommits, Budgets, BOOLEAN)

SpecOrch == InitOrch /\ [][NextOrchWith(OrchEnv, OrchRuns)]_vars

\* a registry of one primary and one secondary target
CollectRegistry ==
    << [key |-> 1, is_primary |-> TRUE], [key |-> 2, is_primary |-> FALSE] >>

EnoughFor(reg) == Margin + Len(reg) + 1

\* the orchestrators against a remote API whose counters vary from one
\* collection to the next and whose fetches may fail
CollectEnv ==
    Env(RepoReplies, {"404", "403", "error"}, FixedCommits,
        {EnoughFor(CollectRegistry)}, {TRUE})

InitCollect == InitWith({CollectRegistry})

SpecCollect == InitCollect /\ [][NextOrchWith(CollectEnv, MaxRuns)]_vars

\* a commit count fetch (get_commits(since=...).totalCount) may be answered
\* with RateLimitExceededException
FaultyCommits == {Reply("ok", 200, 1), Reply("rate_limited", 403, 0)}

CommitFaultsEnv ==
    Env(FixedStats, {}, FaultyCommits, {EnoughFor(CollectRegistry)}, {TRUE})

SpecCommitFaults ==
    InitCollect /\ [][NextOrchWith(CommitFaultsEnv, MaxRuns)]_vars

\* the orchestrators against a remote API whose repository fetch may fail
\* in every way: not found, forbidden, rate limit exhausted, other errors
FaultsEnv ==
    Env(FixedStats, AllFaults, FixedCommits, {EnoughFor(CollectRegistry)},
        {TRUE})

SpecFaults == InitCollect /\ [][NextOrchWith(FaultsEnv, MaxRuns)]_vars

\* runs enough for three snapshots of one repository
DeltaRuns == MaxRuns + 1

\* the orchestrators against a remote API whose counters vary and whose
\* repository fetch may fail with a transient error
DeltaEnv ==
    Env(RepoReplies, {"error"}, FixedCommits, {EnoughFor(CollectRegistry)},
        {TRUE})

SpecDelta == InitCollect /\ [][NextOrchWith(DeltaEnv, DeltaRuns)]_vars

\* the scenario of a remaining budget of 200 before a secondary batch of 50
ScenarioBudget == 200
ScenarioBatch == 50

ScenarioRegistry ==
    [i \in 1..(ScenarioBatch + 1) |-> [key |-> i, is_primary |-> i = 1]]

ScenarioEnv == Env(FixedStats, {}, FixedCommits, {ScenarioBudget}, {TRUE})

InitScenario == InitWith({ScenarioRegistry})

SpecScenario == InitScenario /\ [][NextOrchWith(ScenarioEnv, MaxRuns)]_vars

\* a registry of one primary target and enough secondary targets for v4's
\* in-tier budget check to come round a second time
TierRegistry ==
    [i \in 1..(CheckEvery + 2) |-> [key |-> i, is_primary |-> i = 1]]

\* the remote API reports a budget above the margin or one below LowBudget
TierEnv ==
    Env(FixedStats, {}, FixedCommits, {LowBudget - 1, Margin + 1}, {TRUE})

InitTier == InitWith({TierRegistry})

SpecTier == InitTier /\ [][NextOrchWith(TierEnv, MaxRuns)]_vars

\* a registry of one primary and one secondary target
RunRegistry == <<[key |-> 1, is_primary |-> TRUE],
                 [key |-> 2, is_primary |-> FALSE]>>

\* the remote API reports a budget that skips the secondary tier or one
\* that admits it; fetches, rate-limit reads and the store may fail
RunEnv ==
    Env(FixedStats, {"error"}, FixedCommits,
        {LowBudget - 1, EnoughFor(RunRegistry)}, BOOLEAN)

\* the orchestrators with contributor tracking enabled or disabled
InitRun ==
    /\ requests = << >>
    /\ recorded = << >>
    /\ cpc = 0
    /\ mpc = "wait"
    /\ retries = 0
    /\ unrecorded = 0
    /\ collected = "none"
    /\ \E p \in Progs : OrchIdle(p, RunRegistry)
    /\ CacheIdle("basic", {}, << >>)
    /\ AggIdle
    /\ \E enabled \in BOOLEAN : ProcWith(enabled)

SpecRun == InitRun /\ [][NextOrchWith(RunEnv, MaxRuns)]_vars

\* `self.mongo_client.close()` ends run_continuous of v4 and v1;
\* run_scheduler of main_crypto.py closes nothing
ClosesConnection(p) == p # "main"

\* run_continuous after the immediate run: the loop condition is found
\* false, the connection is closed and run_continuous returns
LeaveLoop ==
    /\ pc = "idle"
    /\ runs > 0
    /\ ~LoopContinues(running)
    /\ pc' = "stopped"
    /\ connected' = (connected /\ ~ClosesConnection(prog))
    /\ UNCHANGED <<rlvars, cachevars, aggvars, projects, exit_status,
                   collection, tracking, trail, prog, crypto_repositories,
                   running, failed_repos, store, idx, runs, attempt, visited,
                   budget, last, pending, job_due, masked>>

\* continuous mode of v4 and v1
InitContinuous == InitRun /\ prog # "main"

NextContinuous == NextOrchWith(RunEnv, MaxRuns) \/ LeaveLoop

\* the program is one thread: whatever statement it has reached is
\* executed; signals and the clock of the scheduler are under no
\* obligation
SpecContinuous ==
    /\ InitContinuous
    /\ [][NextContinuous]_vars
    /\ WF_vars(StartRun(MaxRuns))
    /\ WF_vars(PrimaryStep(RunEnv))
    /\ WF_vars(Persist(RunEnv))
    /\ WF_vars(BudgetCheck(RunEnv))
    /\ WF_vars(SecondaryStep(RunEnv))
    /\ WF_vars(Finish(RunEnv))
    /\ WF_vars(LeaveLoop)

---------------------------------------------------------------------------
(* Part III: the contributor cache of crypto_github_collector_v4.py *)

\* contributor listings of the remote API: sequences of distinct usernames
Listings(usernames) ==
    {l \in UNION {[1..n -> usernames] : n \in 0..Cardinality(usernames)} :
        \A i, j \in DOMAIN l : l[i] = l[j] => i = j}

\* every contributor of the listing is processed (mutant of TopContributors)
AllContributors(listing) == listing

\* `if contributor_count >= MAX_CONTRIBUTORS_PER_REPO: break`
TopContributors(listing) ==
    IF Len(listing) <= MAX_CONTRIBUTORS_PER_REPO THEN listing
    ELSE SubSeq(listing, 1, MAX_CONTRIBUTORS_PER_REPO)

\* every observation flags the contributor (mutant of NeedsUpdate)
NeedsUpdateAlways(existing) == TRUE

\* needs_update as _store_basic_contributor_info computes it: False only
\* for a record with a profile_updated younger than the cache duration
NeedsUpdate(existing) ==
    ~ (/\ existing.exists
       /\ existing.profile_updated # Never
       /\ existing.profile_updated < CONTRIBUTOR_CACHE_DAYS)

\* the $set of one UpdateOne(..., upsert=True)
BasicUpdate(existing, dp) ==
    [exists |-> TRUE,
     needs_update |-> NeedsUpdate(existing),
     profile_updated |-> IF dp = "basic" /\ NeedsUpdate(existing) THEN 0
                         ELSE existing.profile_updated,
     profile_error |-> existing.profile_error]

\* _store_basic_contributor_info: the updates of the first contributors of
\* the listing are collected and written by one ordered bulk_write, which
\* applies `applied` of them (all, unless an exception ends the function:
\* none if it is raised before bulk_write, a prefix if bulk_write fails)
StoreBasicContributorInfo(listing) ==
    LET ops == TopContributors(listing) IN
       \E applied \in 0..Len(ops) :
          LET written == SubSeq(ops, 1, applied) IN
             /\ contributors' =
                   [u \in DOMAIN contributors |->
                       IF \E j \in DOMAIN written : written[j] = u
                       THEN BasicUpdate(contributors[u], depth)
                       ELSE contributors[u]]
             /\ event' = Event("observe", 0, applied = Len(ops), written)
             /\ UNCHANGED <<rlvars, orchvars, aggvars, procvars, depth, api_listing, cursor,
                            fetched>>

\* a collection of a repository with any contributor listing
CollectContributors ==
    \E listing \in Listings(DOMAIN contributors) :
       StoreBasicContributorInfo(listing)

\* a collection of the repository whose listing is api_listing
CollectListed == StoreBasicContributorInfo(api_listing)

\* the orders find(..., sort=[('profile_updated', 1)]) may return the
\* usernames of `flagged` in: oldest profile_updated first, records without
\* the field before all others, ties in any order
SortedByProfileUpdated(flagged) ==
    LET rank(u) == IF contributors[u].profile_updated = Never
                   THEN CONTRIBUTOR_CACHE_DAYS + 1
                   ELSE contributors[u].profile_updated
    IN {q \in [1..Cardinality(flagged) -> flagged] :
           /\ \A i, j \in DOMAIN q : q[i] = q[j] => i = j
           /\ \A i, j \in DOMAIN q : i < j => rank(q[i]) >= rank(q[j])}

\* the query returns every flagged record (mutant of Limited)
Unlimited(q, limit) == q

\* find(..., limit=limit): the first `limit` documents of the sorted result
Limited(q, limit) ==
    IF Len(q) <= limit THEN q ELSE SubSeq(q, 1, limit)

\* update_contributor_profiles(limit), the query
UpdateContributorProfiles ==
    /\ cursor = << >>
    /\ \E limit \in 1..MaxLimit :
       \E q \in SortedByProfileUpdated(
                   {u \in DOMAIN contributors :
                       /\ contributors[u].exists
                       /\ contributors[u].needs_update}) :
          /\ cursor' = Limited(q, limit)
          /\ event' = Event("find", limit, TRUE, << >>)
    /\ UNCHANGED <<rlvars, orchvars, aggvars, procvars, depth, api_listing, contributors,
                   fetched>>

\* the failed record is left as it is (mutant of MarkFailed)
LeaveFailed(existing) == existing

\* the except branch: "Mark as updated anyway to avoid repeated failures"
MarkFailed(existing) ==
    [existing EXCEPT !.profile_updated = 0, !.needs_update = FALSE,
                     !.profile_error = TRUE]

\* the $set of profile_data after get_user
MarkFetched(existing) ==
    [existing EXCEPT !.profile_updated = 0, !.needs_update = FALSE]

\* update_contributor_profiles, one iteration of the loop: get_user for
\* the next username of the cursor succeeds or raises
FetchProfile ==
    /\ cursor # << >>
    /\ \E ok \in BOOLEAN :
          LET username == Head(cursor) IN
             /\ contributors' =
                   [contributors EXCEPT ![username] =
                       IF ok THEN MarkFetched(@) ELSE MarkFailed(@)]
             /\ fetched' = [fetched EXCEPT ![username] =
                               IF ok THEN 0 ELSE @]
             /\ event' = Event("get_user", username, ok, << >>)
    /\ cursor' = Tail(cursor)
    /\ UNCHANGED <<rlvars, orchvars, aggvars, procvars, depth, api_listing>>

\* time passes
CacheTick ==
    /\ contributors' =
          [u \in DOMAIN contributors |->
              [contributors[u] EXCEPT !.profile_updated = Older(@)]]
    /\ fetched' = [u \in DOMAIN fetched |-> Older(fetched[u])]
    /\ event' = Event("tick", 0, TRUE, << >>)
    /\ UNCHANGED <<rlvars, orchvars, aggvars, procvars, depth, api_listing, cursor>>

NextCache ==
    \/ CollectContributors
    \/ UpdateContributorProfiles
    \/ FetchProfile
    \/ CacheTick

\* no collector is running
LimiterIdle ==
    /\ requests = << >>
    /\ recorded = << >>
    /\ cpc = 0
    /\ mpc = "wait"
    /\ retries = 0
    /\ unrecorded = 0
    /\ collected = "none"

\* records are independent of each other: two contributors, seen in any
\* listing
CacheUsernames == {1, 2}

InitCache ==
    /\ LimiterIdle
    /\ OrchIdle("v4", << >>)
    /\ AggIdle
    /\ ProcIdle
    /\ \E dp \in Depths : CacheIdle(dp, CacheUsernames, << >>)

SpecCache == InitCache /\ [][NextCache]_vars

\* update_contributor_profiles is a sequential loop that is run again and
\* again: a query that would select a record is made, and a selected
\* record is fetched.  Whether and when repositories are collected, and
\* which answer get_user gives, is not subject to fairness.
SpecCacheFair ==
    /\ SpecCache
    /\ WF_vars(UpdateContributorProfiles)
    /\ WF_vars(FetchProfile)

\* one username more than a collection may write
Usernames == 1..(MAX_CONTRIBUTORS_PER_REPO + 1)

\* the collections of one repository whose contributor listing is any
\* listing of Usernames, with CONTRIBUTOR_PROFILE_DEPTH = "full"
InitListing ==
    /\ LimiterIdle
    /\ OrchIdle("v4", << >>)
    /\ AggIdle
    /\ ProcIdle
    /\ \E listing \in Listings(Usernames) :
          CacheIdle("full", Usernames, listing)

NextListing ==
    \/ CollectListed
    \/ CacheTick

SpecListing == InitListing /\ [][NextListing]_vars

---------------------------------------------------------------------------
(* Part IV: the daily aggregation of chart_aggregator.py and of        *)
(* crypto_github_collector_v4.py                                       *)

\* Names are sequences of characters.  Owner names hold no "_" and no "/"
\* and repository names no "/" (the remote API's naming rules); coin ids
\* and repository names may hold "_".
AggTargets ==
    {[coin_id |-> <<"a">>, owner |-> <<"b">>, name |-> <<"c">>],
     [coin_id |-> <<"a", "_", "b">>, owner |-> <<"b">>,
      name |-> <<"c", "_", "0">>]}

\* the `repo` sub-document of a snapshot: RepositoryStatsCollector.collect
\* (main_crypto.py) stores owner and name, the two crypto collectors store
\* the coin_id as well
RepoDocument(p, target) ==
    IF p = "main" THEN [owner |-> target.owner, name |-> target.name]
    ELSE [coin_id |-> target.coin_id, owner |-> target.owner,
          name |-> target.name]

\* a raw snapshot of `target` taken at time t by program p, the remote
\* counters being given by v (see RepoReplies); `target` is history
SnapshotDocument(p, target, t, v) ==
    [timestamp |-> t,
     target |-> target,
     repo |-> RepoDocument(p, target),
     stats |-> [stars |-> v, forks |-> MaxCount - v],
     activity |-> [commits_last_24h |-> v,
                   unique_contributors_7d |-> MaxCount - v]]

\* the event of an operation: op is "chart" for an aggregation of
\* ChartDataAggregator and "collector" for one of a crypto collector; ok
\* tells that it returned without raising, store_ok that the store
\* answered, results is the number of result documents, returned holds
\* the value returned if there is one; nth tells the
\* second of two complete aggregations of the same kind over the same
\* window that directly follow each other
AggEvent(op, ok, days_back, store_ok, results, returned) ==
    [op |-> op, ok |-> ok, days_back |-> days_back,
     nth |-> IF /\ op \in {"chart", "collector"} /\ ok
                /\ agg_event.op = op /\ agg_event.ok
                /\ agg_event.days_back = days_back
             THEN 2 ELSE 1,
     store_ok |-> store_ok, results |-> results, returned |-> returned]

\* only the last inserted document is kept (mutant of InsertOne)
InsertOneOverwriting(coll, doc) == <<doc>>

\* collection.insert_one(doc)
InsertOne(coll, doc) == Append(coll, doc)

\* insert_one / save_data of a snapshot taken now
InsertSnapshot ==
    /\ Len(repo_stats) < MaxSnapshots
    /\ \E target \in AggTargets, v \in 0..MaxCount :
          repo_stats' =
             InsertOne(repo_stats, SnapshotDocument(prog, target, now, v))
    /\ agg_event' = AggEvent("insert", TRUE, 0, TRUE, 0, {})
    /\ UNCHANGED <<rlvars, orchvars, cachevars, procvars, daily_repo_stats, now>>

\* {'$dateToString': {'format': '%Y-%m-%d', 'date': '$timestamp'}}
DateToString(t) == <<ToString(t \div TicksPerDay)>>

\* the $match stage of ChartDataAggregator: from midnight days_back days ago
\* to the end of today, snapshots with a coin_id only
ChartMatch(s, days_back) ==
    /\ s.timestamp >= ((now \div TicksPerDay) - days_back) * TicksPerDay
    /\ s.timestamp < ((now \div TicksPerDay) + 1) * TicksPerDay
    /\ "coin_id" \in DOMAIN s.repo

\* the $match stage of the collector's own aggregation: the last 24 hours
CollectorMatch(s) ==
    /\ s.timestamp >= now - TicksPerDay
    /\ s.timestamp <= now
    /\ "coin_id" \in DOMAIN s.repo

\* the _id of the $group stage
GroupId(s) ==
    [date |-> DateToString(s.timestamp), coin_id |-> s.repo.coin_id,
     owner |-> s.repo.owner, name |-> s.repo.name]

\* {'$concat': [coin_id, '_', owner, '/', name, '_', date]}
CompositeKey(g) ==
    g.coin_id \o <<"_">> \o g.owner \o <<"/">> \o g.name \o <<"_">> \o g.date

\* the element at index 0 whatever the index (mutant of ArrayElemAt)
ArrayElemAtZero(arr, i) == arr[1]

\* $arrayElemAt with index 0 or -1
ArrayElemAt(arr, i) == IF i = -1 THEN arr[Len(arr)] ELSE arr[i + 1]

RECURSIVE SumAll(_)
SumAll(arr) == IF arr = << >> THEN 0 ELSE Head(arr) + SumAll(Tail(arr))

RECURSIVE MaxAll(_)
MaxAll(arr) ==
    IF Len(arr) = 1 THEN arr[1] ELSE Max(Head(arr), MaxAll(Tail(arr)))

\* $avg, as a fraction in lowest terms
Avg(arr) == Ratio(SumAll(arr), Len(arr))

\* the documents of group g, in the order the store returns them
GroupMembers(matched, g) ==
    SelectSeq(matched, LAMBDA s : GroupId(s) = g)

\* the result document of ChartDataAggregator's pipeline for group g
ChartDocument(g, members) ==
    LET stars == [i \in DOMAIN members |-> members[i].stats.stars]
        forks == [i \in DOMAIN members |-> members[i].stats.forks]
    IN [_id |-> CompositeKey(g),
        date |-> g.date,
        coin_id |-> g.coin_id,
        repo_key |-> g.owner \o <<"/">> \o g.name,
        repo_info |-> members[1].repo,
        metrics |->
           [stars_start |-> ArrayElemAt(stars, 0),
            stars_end |-> ArrayElemAt(stars, -1),
            stars_change |-> ArrayElemAt(stars, -1) - ArrayElemAt(stars, 0),
            forks_start |-> ArrayElemAt(forks, 0),
            forks_end |-> ArrayElemAt(forks, -1),
            forks_change |-> ArrayElemAt(forks, -1) - ArrayElemAt(forks, 0),
            max_commits_24h |->
               MaxAll([i \in DOMAIN members |->
                          members[i].activity.commits_last_24h]),
            avg_contributors_7d |->
               Avg([i \in DOMAIN members |->
                       members[i].activity.unique_contributors_7d])],
        data_points |-> Len(members)]

\* the result document of the collector's pipeline for group g (the
\* collector of v4 adds the maximum of total_contributors, a field the
\* model does not keep)
CollectorDocument(g, members) ==
    LET stars == [i \in DOMAIN members |-> members[i].stats.stars]
        forks == [i \in DOMAIN members |-> members[i].stats.forks]
    IN [_id |-> CompositeKey(g),
        date |-> g.date,
        coin_id |-> g.coin_id,
        repo_key |-> g.owner \o <<"/">> \o g.name,
        repo_info |-> members[1].repo,
        metrics |->
           [stars_start |-> ArrayElemAt(stars, 0),
            stars_end |-> ArrayElemAt(stars, -1),
            forks_start |-> ArrayElemAt(forks, 0),
            forks_end |-> ArrayElemAt(forks, -1),
            max_commits_24h |->
               MaxAll([i \in DOMAIN members |->
                          members[i].activity.commits_last_24h]),
            avg_contributors_7d |->
               Avg([i \in DOMAIN members |->
                       members[i].activity.unique_contributors_7d])]]

\* the new document counts on top of the stored one (mutant of SetDocument)
SetDocumentAccumulating(existing, doc) ==
    [doc EXCEPT !.data_points = @ + existing.data_points]

\* UpdateOne({'_id': ...}, {'$set': doc}) on a stored document: the fields
\* of doc replace the stored ones, other stored fields stay
SetDocument(existing, doc) ==
    [f \in DOMAIN existing \cup DOMAIN doc |->
        IF f \in DOMAIN doc THEN doc[f] ELSE existing[f]]

\* replace_one({'_id': ...}, doc)
ReplaceDocument(existing, doc) == doc

\* the daily collection (a function of _id) after the upserts of
\* `results`, whose ids are distinct; replace tells replace_one from $set
Upserted(daily, results, replace) ==
    LET ids == {doc._id : doc \in results}
        of(id) == CHOOSE doc \in results : doc._id = id
    IN [id \in DOMAIN daily \cup ids |->
           IF id \notin ids THEN daily[id]
           ELSE IF id \notin DOMAIN daily THEN of(id)
           ELSE IF replace THEN ReplaceDocument(daily[id], of(id))
           ELSE SetDocument(daily[id], of(id))]

\* the results are written whatever their number (mutant of HasResults)
HasResultsUnchecked(results) == TRUE

\* `if results:` (and `if bulk_ops:`)
HasResults(results) == results # {}

\* ChartDataAggregator.create_daily_aggregations(days_back): the pipeline
\* and the bulk_write of its results; either raises if the store fails,
\* and bulk_write raises if it is given no operation; then nothing is
\* written
ChartCreateDailyAggregations ==
    /\ prog # "v4"
    /\ \E days_back \in 1..DaysBack :
       \E matched \in {SelectSeq(repo_stats,
                                 LAMBDA s : ChartMatch(s, days_back))} :
       \E results \in {{ChartDocument(g, GroupMembers(matched, g)) :
                           g \in {GroupId(matched[i]) :
                                     i \in DOMAIN matched}}} :
       \E store_ok \in BOOLEAN :
          LET ok == store_ok /\ (HasResults(results) => results # {})
              returned == IF ok THEN {Cardinality(results)} ELSE {}
          IN /\ daily_repo_stats' =
                   IF ok /\ HasResults(results)
                   THEN Upserted(daily_repo_stats, results, FALSE)
                   ELSE daily_repo_stats
             /\ agg_event' = AggEvent("chart", ok, days_back, store_ok,
                                      Cardinality(results), returned)
    /\ UNCHANGED <<rlvars, orchvars, cachevars, procvars, repo_stats, now>>

\* create_daily_aggregations of crypto_github_collector_v4.py and of
\* crypto_github_collector.py: the pipeline and one replace_one for each
\* result; the method has no return value
CreateDailyAggregations ==
    /\ prog \in {"v4", "v1"}
    /\ \E matched \in {SelectSeq(repo_stats, CollectorMatch)} :
       \E results \in {{CollectorDocument(g, GroupMembers(matched, g)) :
                           g \in {GroupId(matched[i]) :
                                     i \in DOMAIN matched}}} :
       \E store_ok \in BOOLEAN :
          /\ daily_repo_stats' =
                IF store_ok /\ HasResults(results)
                THEN Upserted(daily_repo_stats, results, TRUE)
                ELSE daily_repo_stats
          /\ agg_event' = AggEvent("collector", store_ok, 1, store_ok,
                                   Cardinality(results), {})
    /\ UNCHANGED <<rlvars, orchvars, cachevars, procvars, repo_stats, now>>

\* time passes
AggTick ==
    /\ now < MaxTime
    /\ now' = now + 1
    /\ agg_event' = AggEvent("tick", TRUE, 0, TRUE, 0, {})
    /\ UNCHANGED <<rlvars, orchvars, cachevars, procvars, repo_stats,
                   daily_repo_stats>>

NextAgg ==
    \/ InsertSnapshot
    \/ ChartCreateDailyAggregations
    \/ CreateDailyAggregations
    \/ AggTick

InitAgg ==
    /\ LimiterIdle
    /\ \E p \in Progs : OrchIdle(p, << >>)
    /\ CacheIdle("basic", {}, << >>)
    /\ AggIdle
    /\ ProcIdle

SpecAgg == InitAgg /\ [][NextAgg]_vars

(* Part V: the construction of the orchestrator: _load_crypto_repositories *)

\* the catalog has at most MaxProjects projects, with at most MaxUrls URLs
\* in all their lists together
MaxProjects == 2
MaxUrls == 3

\* 'https://github.com/'; a URL is the sequence of its characters, the
\* scheme and the host being one token each
GithubPrefix == <<"https://", "github.com", "/">>

\* the URLs a list may hold: two repositories, an organisation page, a
\* repository on another host, an empty entry
Urls ==
    { GithubPrefix \o <<"b", "/", "c">>,
      GithubPrefix \o <<"b", "/", "d">>,
      GithubPrefix \o <<"b">>,
      <<"https://", "gitlab.com", "/", "b", "/", "c">>,
      << >> }

RECURSIVE RStrip(_, _)
\* str.rstrip(chars)
RStrip(s, chars) ==
    IF s # << >> /\ s[Len(s)] \in chars
    THEN RStrip(SubSeq(s, 1, Len(s) - 1), chars)
    ELSE s

RECURSIVE LStrip(_, _)
\* str.lstrip(chars)
LStrip(s, chars) ==
    IF s # << >> /\ s[1] \in chars THEN LStrip(Tail(s), chars) ELSE s

\* str.strip(chars)
Strip(s, chars) == LStrip(RStrip(s, chars), chars)

RECURSIVE Split(_, _)
\* str.split(sep)
Split(s, sep) ==
    IF \E i \in DOMAIN s : s[i] = sep
    THEN LET i == CHOOSE k \in DOMAIN s :
                     s[k] = sep /\ \A j \in 1..(k - 1) : s[j] # sep
         IN <<SubSeq(s, 1, i - 1)>> \o Split(SubSeq(s, i + 1, Len(s)), sep)
    ELSE <<s>>

\* str.startswith(prefix)
StartsWith(s, prefix) ==
    Len(s) >= Len(prefix) /\ SubSeq(s, 1, Len(prefix)) = prefix

\* urlparse(url).netloc and urlparse(url).path
Netloc(url) ==
    IF Len(url) >= 2 /\ url[1] = "https://" THEN <<url[2]>> ELSE << >>

Path(url) ==
    IF Len(url) >= 2 /\ url[1] = "https://" THEN SubSeq(url, 3, Len(url))
    ELSE url

\* (None, None)
None == << >>

\* _parse_github_url: <<owner, name>> or None; v4 strips trailing slashes
\* first (its /tree/ and /blob/ cut applies to no URL of Urls)
ParseGithubUrl(p, url) ==
    LET unslashed == IF p = "v4" THEN RStrip(url, {"/"}) ELSE url
        stripped == RStrip(unslashed, {".", "g", "i", "t"})
        path_parts == Split(Strip(Path(stripped), {"/"}), "/")
    IN IF Netloc(stripped) # <<"github.com">> THEN None
       ELSE IF Len(path_parts) >= 2 THEN <<path_parts[1], path_parts[2]>>
       ELSE None

\* `if not repo_url or not repo_url.startswith(...): continue`, then
\* `if owner and repo_name`
Usable(p, url) ==
    /\ url # << >>
    /\ StartsWith(url, GithubPrefix)
    /\ LET parsed == ParseGithubUrl(p, url)
       IN parsed # None /\ parsed[1] # << >> /\ parsed[2] # << >>

\* 'is_primary': i == 0, for the i-th entry of enumerate(repos_info); the
\* model counts positions from 1
IsPrimary(i) == i = 1

\* the targets of one project, in the order of its URL list
ProjectTargets(p, project) ==
    LET urls == project.github
        usable == SelectSeq([i \in 1..Len(urls) |-> i],
                            LAMBDA i : Usable(p, urls[i]))
    IN [k \in 1..Len(usable) |->
           [owner |-> ParseGithubUrl(p, urls[usable[k]])[1],
            name |-> ParseGithubUrl(p, urls[usable[k]])[2],
            coin_id |-> project.coin_id,
            is_primary |-> IsPrimary(usable[k])]]

RECURSIVE AllTargets(_, _)
\* `for project in projects: ... self.crypto_repositories.append(...)`
AllTargets(p, projs) ==
    IF projs = << >> THEN << >>
    ELSE ProjectTargets(p, Head(projs)) \o AllTargets(p, Tail(projs))

RECURSIVE Mapped(_, _)
\* CryptoRepositoryMapper.load_mappings: `_repo_to_coin_map[repo_key] = ...`
\* for each target in turn; an entry for a repo_key already in the map
\* replaces the earlier one, in its place
Mapped(map, rest) ==
    IF rest = << >> THEN map
    ELSE LET t == Head(rest)
             SameKey(i) == map[i].owner = t.owner /\ map[i].name = t.name
         IN Mapped(IF \E i \in DOMAIN map : SameKey(i)
                   THEN [i \in DOMAIN map |->
                            IF SameKey(i) THEN t ELSE map[i]]
                   ELSE Append(map, t),
                   Tail(rest))

\* the registry that construction builds from the catalog
Loaded(p, projs) ==
    IF p = "main" THEN Mapped(<< >>, AllTargets(p, projs))
    ELSE AllTargets(p, projs)

\* the registry is used even when it is empty (mutant of NoRepositories)
NoRepositoriesIgnored(registry) == FALSE

\* `if not self.crypto_repositories:`
NoRepositories(registry) == registry = << >>

\* _load_crypto_repositories, the last step of __init__
LoadCryptoRepositories ==
    /\ pc = "constructing"
    /\ LET loaded == Loaded(prog, projects)
       IN IF NoRepositories(loaded)
          THEN /\ pc' = "exited"
               /\ exit_status' = <<1>>
               /\ UNCHANGED crypto_repositories
          ELSE /\ pc' = "idle"
               /\ crypto_repositories' = loaded
               /\ UNCHANGED exit_status
    /\ UNCHANGED <<rlvars, cachevars, aggvars, projects, collection,
                   tracking, connected, trail, prog, running, failed_repos, store, idx,
                   runs, attempt, visited, budget, last, pending, job_due,
                   masked>>

\* the sum of lens[1..n]
RECURSIVE SumTo(_, _)
SumTo(lens, n) == IF n = 0 THEN 0 ELSE lens[n] + SumTo(lens, n - 1)

\* every catalog of 1..MaxProjects projects whose lists hold at most
\* MaxUrls URLs together; the coin_id of a project is its number
Catalogs ==
    UNION { UNION { { [i \in 1..n |->
                         [coin_id |-> <<ToString(i)>>,
                          github |-> SubSeq(flat, SumTo(lens, i - 1) + 1,
                                            SumTo(lens, i))]] :
                       flat \in [1..SumTo(lens, n) -> Urls] } :
                    lens \in { l \in [1..n -> 0..MaxUrls] :
                                  SumTo(l, n) <= MaxUrls } } :
            n \in 1..MaxProjects }

\* the process before _load_crypto_repositories, for any program and any
\* catalog of `catalogs`
InitLoadWith(catalogs) ==
    /\ LimiterIdle
    /\ CacheIdle("basic", {}, << >>)
    /\ AggIdle
    /\ \E p \in Progs : prog = p
    /\ \E catalog \in catalogs : projects = catalog
    /\ exit_status = << >>
    /\ collection = NoCollection
    /\ tracking = TRUE
    /\ connected = TRUE
    /\ trail = << >>
    /\ crypto_repositories = << >>
    /\ running = TRUE
    /\ failed_repos = {}
    /\ store = << >>
    /\ pc = "constructing"
    /\ idx = 1
    /\ runs = 0
    /\ attempt = 0
    /\ visited = << >>
    /\ budget = -1
    /\ last = NoAttempt
    /\ pending = << >>
    /\ job_due = FALSE
    /\ masked = FALSE

InitLoad == InitLoadWith(Catalogs)

\* construction, and the entry into the first run
NextLoad == LoadCryptoRepositories \/ StartRun(MaxRuns)

SpecLoad == InitLoad /\ [][NextLoad]_vars

\* the longest repository name of SpecParse, in characters
MaxNameLen == 2

\* the characters of the repository names of SpecParse
NameChars == {"c", "g", "t"}

GitSuffix == <<".", "g", "i", "t">>

\* https://github.com/b/<name> and https://github.com/b/<name>.git for
\* every name of 1..MaxNameLen characters
RepositoryUrls ==
    { GithubPrefix \o <<"b", "/">> \o name \o suffix :
         name \in UNION {[1..n -> NameChars] : n \in 1..MaxNameLen},
         suffix \in {<< >>, GitSuffix} }

\* the catalogs of one project with one repository URL
ParseCatalogs ==
    { <<[coin_id |-> <<"1">>, github |-> <<url>>]>> : url \in RepositoryUrls }

InitParse == InitLoadWith(ParseCatalogs)

SpecParse == InitParse /\ [][NextLoad]_vars

(* Part VI: the steps of one collection and the timestamp of its snapshot *)

\* `repo = self.github.get_repo(...)` / `self.get_repository(...)`: the
\* first fetch of a collection, of the repository and its counters
FetchRepository ==
    /\ collection.step \in {"idle", "returned"}
    /\ Len(repo_stats) < MaxSnapshots
    /\ \E target \in AggTargets, v \in 0..MaxCount :
          collection' = [step |-> "metadata", target |-> target,
                         stars |-> v, fetched_at |-> now,
                         activity_at |-> 0, local_now |-> 0]
    /\ agg_event' = AggEvent("fetch", TRUE, 0, TRUE, 0, {})
    /\ UNCHANGED <<rlvars, orchvars, cachevars, projects, exit_status,
                   tracking, connected, trail, repo_stats, daily_repo_stats, now>>

\* the lookup of the previous snapshot and the deltas, then the activity
\* fetches; v4 and v1 set `now = datetime.now(...)` before the first of
\* them, _collect_activity_metrics of main keeps its `now` to itself
CollectActivity ==
    /\ collection.step = "metadata"
    /\ collection' = [collection EXCEPT
                         !.step = "activity",
                         !.activity_at = now,
                         !.local_now = IF prog = "main" THEN 0 ELSE now]
    /\ agg_event' = AggEvent("activity", TRUE, 0, TRUE, 0, {})
    /\ UNCHANGED <<rlvars, orchvars, cachevars, projects, exit_status,
                   tracking, connected, trail, repo_stats, daily_repo_stats, now>>

\* 'timestamp': now (v4, v1) / 'timestamp': datetime.utcnow() (main)
Timestamp(p, local_now, clock) == IF p = "main" THEN clock ELSE local_now

\* the snapshot is assembled and returned, and the caller inserts it
Assemble ==
    /\ collection.step = "activity"
    /\ repo_stats' =
          InsertOne(repo_stats,
                    SnapshotDocument(prog, collection.target,
                                     Timestamp(prog, collection.local_now,
                                               now),
                                     collection.stars))
    /\ collection' = [collection EXCEPT !.step = "returned"]
    /\ agg_event' = AggEvent("insert", TRUE, 0, TRUE, 0, {})
    /\ UNCHANGED <<rlvars, orchvars, cachevars, projects, exit_status,
                   tracking, connected, trail, daily_repo_stats, now>>

\* the collections of any program, each fetch and sleep taking any time
NextStamp == FetchRepository \/ CollectActivity \/ Assemble \/ AggTick

SpecStamp == InitAgg /\ [][NextStamp]_vars

(* Part VII: collect_all_repos of main.py (GithubDataCollector), which     *)
(* drives the RepositoryStatsCollector of "main" over CRYPTO_PROJECTS      *)

\* CRYPTO_PROJECTS: a fixed list of repositories, with no tiers
CryptoProjects == [i \in 1..NumTargets |-> [key |-> i, is_primary |-> TRUE]]

\* one iteration of `for owner, repo_name in CRYPTO_PROJECTS`: the loop
\* body starts with the collection, under no condition
CollectAllReposStep(env) ==
    /\ pc = "primary"
    /\ MayStartNext(pending)
    /\ idx + Len(pending) <= Len(crypto_repositories)
    /\ \E in \in Inputs(env, prog) : Visit(idx + Len(pending), in)

\* after the loop: check_rate_limit, and collect_all_repos returns
CollectAllReposEnd(env) ==
    /\ pc = "primary"
    /\ pending = << >>
    /\ idx > Len(crypto_repositories)
    /\ \E rate \in env.rate :
          IF rate.kind = "ok"
          THEN pc' = "idle" /\ job_due' = (job_due /\ runs = 1)
          ELSE pc' = "crashed" /\ UNCHANGED job_due
    /\ UNCHANGED <<rlvars, cachevars, aggvars, procvars, prog,
                   crypto_repositories, running, failed_repos, store, idx,
                   runs, attempt, visited, budget, last, pending, masked>>

\* the remote API and the store may fail
AllReposEnv ==
    Env(FixedStats, {"404", "error"}, FixedCommits, {Margin}, BOOLEAN)

InitAllRepos == InitWith({CryptoProjects}) /\ prog = "main"

\* a shutdown signal that arrives while collect_all_repos is running
SignalDuringRun == pc = "primary" /\ Signal

NextAllRepos ==
    \/ SignalDuringRun
    \/ TriggerDue(MaxRuns)
    \/ StartRun(MaxRuns)
    \/ CollectAllReposStep(AllReposEnv)
    \/ Persist(AllReposEnv)
    \/ CollectAllReposEnd(AllReposEnv)

SpecAllRepos == InitAllRepos /\ [][NextAllRepos]_vars

---------------------------------------------------------------------------
(* Part VIII: the sliding-window limiter of crypto_github_collector.py    *)
(* (_check_rate_limit) under the gated calls of collect_repository_stats. *)
(* `requests` is self.rate_limit_requests; `recorded` holds the ages of   *)
(* the moments at which _check_rate_limit returned and released its call, *)
(* as long as they are younger than the window.                           *)

\* the gated remote calls of one collection: get_repo, the two commit
\* counts and the commit listing of _get_active_contributors
GatedCalls == 4

\* _check_rate_limit: `now` is read, the list is pruned, at capacity the
\* call sleeps until the oldest entry leaves the window, and then `now`,
\* read before the sleep, is appended
CheckRateLimit ==
    /\ prog = "v1"
    /\ cpc # 0 /\ mpc = "wait"
    /\ \E slept \in {WaitSeconds(requests)} :
          /\ requests' = Append(Elapse(InWindow(requests), slept),
                                Min(slept, Window))
          /\ recorded' = Append(InWindow(Elapse(recorded, slept)), 0)
    /\ mpc' = "call"
    /\ UNCHANGED <<cpc, retries, unrecorded, collected>>
    /\ UNCHANGED <<orchvars, cachevars, aggvars, procvars>>

\* the remote call that follows _check_rate_limit: an error of get_repo
\* ends the collection, an error of a later call is replaced by 0 or []
RemoteCall ==
    /\ prog = "v1"
    /\ cpc # 0 /\ mpc = "call"
    /\ \E ok \in BOOLEAN :
          LET nxt == IF (cpc = 1 /\ ~ok) \/ cpc = GatedCalls
                     THEN 0 ELSE cpc + 1
          IN  /\ cpc' = nxt
              /\ collected' = IF nxt # 0 THEN "running"
                              ELSE IF cpc = 1 THEN "raised" ELSE "data"
    /\ mpc' = "wait"
    /\ UNCHANGED <<requests, recorded, retries, unrecorded>>
    /\ UNCHANGED <<orchvars, cachevars, aggvars, procvars>>

InitSliding ==
    /\ requests = << >>
    /\ recorded = << >>
    /\ cpc = 0
    /\ mpc = "wait"
    /\ retries = 0
    /\ unrecorded = 0
    /\ collected = "none"
    /\ OrchIdle("v1", << >>)
    /\ CacheIdle("basic", {}, << >>)
    /\ AggIdle
    /\ ProcIdle

NextSliding ==
    \/ Tick
    \/ CollectBegin
    \/ CheckRateLimit
    \/ RemoteCall

SpecSliding == InitSliding /\ [][NextSliding]_vars

---------------------------------------------------------------------------
(* Part IX: the contributor-activity ranking of a snapshot of             *)
(* crypto_github_collector_v4.py (_get_active_contributors and the        *)
(* activity fields of collect_repository_stats).  In this part            *)
(* `collection` holds the 7-day commit listing of the repository, the     *)
(* list recent_contributors and the activity fields of the snapshot.      *)

\* `if commit_count >= 50: break`, scaled down
CommitSample == 3
\* the longest 7-day commit listing of the remote API
MaxCommits == 4
\* `recent_contributors[:10]`, scaled down
TopShown == 1

\* commit.author of a commit: a username, or 0 for a commit whose author
\* is no GitHub user (commit.author is None)
CommitAuthors == 0..2

CommitListings == UNION {[1..n -> CommitAuthors] : n \in 0..MaxCommits}

\* the first n elements of a sequence (s[:n])
Take(s, n) == SubSeq(s, 1, Min(Len(s), n))

\* lines 427-442: contributor_stats after the loop over the commits, a dict
\* in insertion order: one entry for each username, made at its first
\* commit, counting its commits among those looked at
RECURSIVE ContributorStats(_)
ContributorStats(looked_at) ==
    IF looked_at = << >> THEN << >>
    ELSE LET before == ContributorStats(Take(looked_at, Len(looked_at) - 1))
             author == looked_at[Len(looked_at)]
             known  == {i \in DOMAIN before : before[i].username = author}
         IN  IF author = 0 THEN before
             ELSE IF known = {}
             THEN Append(before, [username |-> author, commits |-> 1])
             ELSE [i \in DOMAIN before |->
                      IF i \in known
                      THEN [before[i] EXCEPT !.commits = @ + 1]
                      ELSE before[i]]

\* sorted(..., key=commits, reverse=True): a stable sort, equal keys keep
\* their order also when reversed
RECURSIVE SortedByCommits(_)
SortedByCommits(entries) ==
    IF entries = << >> THEN << >>
    ELSE LET sorted == SortedByCommits(Take(entries, Len(entries) - 1))
             e == entries[Len(entries)]
             ahead == {i \in DOMAIN sorted : sorted[i].commits >= e.commits}
         IN  [i \in 1..(Len(sorted) + 1) |->
                 IF i <= Cardinality(ahead) THEN sorted[i]
                 ELSE IF i = Cardinality(ahead) + 1 THEN e
                 ELSE sorted[i - 1]]

\* _get_active_contributors(repo, 7)
GetActiveContributors(commits) ==
    SortedByCommits(ContributorStats(Take(commits, CommitSample)))

\* lines 333-340: the ranking is computed under ENABLE_CONTRIBUTOR_TRACKING
\* and is [] without it
RecentContributors(enabled, commits) ==
    IF enabled THEN GetActiveContributors(commits) ELSE << >>

\* lines 357-363: the activity fields derived from recent_contributors
Activity(recent_contributors) ==
    [unique_contributors_7d |-> Len(recent_contributors),
     top_contributors_7d    |-> Take(recent_contributors, TopShown)]

\* a collection begins for a repository whose 7-day commit listing is
\* `commits`
BeginCollection ==
    /\ prog = "v4"
    /\ collection.step \in {"idle", "returned"}
    /\ \E commits \in CommitListings :
          collection' = [step |-> "metadata", commits |-> commits,
                         recent_contributors |-> << >>,
                         activity |-> Activity(<< >>)]
    /\ UNCHANGED <<rlvars, orchvars, cachevars, aggvars, projects,
                   exit_status, tracking, connected, trail>>

\* lines 333-340 of collect_repository_stats
CollectRecentContributors ==
    /\ prog = "v4"
    /\ collection.step = "metadata"
    /\ collection' =
          [collection EXCEPT
              !.step = "activity",
              !.recent_contributors =
                  RecentContributors(tracking, collection.commits)]
    /\ UNCHANGED <<rlvars, orchvars, cachevars, aggvars, projects,
                   exit_status, tracking, connected, trail>>

\* lines 342-370: the snapshot is compiled and returned
CompileData ==
    /\ prog = "v4"
    /\ collection.step = "activity"
    /\ collection' =
          [collection EXCEPT
              !.step = "returned",
              !.activity = Activity(collection.recent_contributors)]
    /\ UNCHANGED <<rlvars, orchvars, cachevars, aggvars, projects,
                   exit_status, tracking, connected, trail>>

InitRanking ==
    /\ LimiterIdle
    /\ OrchIdle("v4", << >>)
    /\ CacheIdle("basic", {}, << >>)
    /\ AggIdle
    /\ \E enabled \in BOOLEAN : ProcWith(enabled)

NextRanking ==
    \/ BeginCollection
    \/ CollectRecentContributors
    \/ CompileData

SpecRanking == InitRanking /\ [][NextRanking]_vars

---------------------------------------------------------------------------
(* Claims *)

Range(s) == {s[i] : i \in DOMAIN s}

PrimaryPositions ==
    {i \in DOMAIN crypto_repositories : crypto_repositories[i].is_primary}

SecondaryPositions == DOMAIN crypto_repositories \ PrimaryPositions

\* the store held a snapshot of the same repository when store[i] was made
HasPrior(i) == \E j \in 1..(i - 1) : store[j].key = store[i].key

\* the most recent snapshot of the same repository before store[i]
PriorOf(i) ==
    LET j == CHOOSE j \in 1..(i - 1) :
                /\ store[j].key = store[i].key
                /\ \A k \in (j + 1)..(i - 1) : store[k].key # store[i].key
    IN  store[j]

HasDerivedFields(stats) ==
    \E c \in RawCounters :
        ChangeName(c) \in DOMAIN stats \/ RateName(c) \in DOMAIN stats

\* the derived fields of counter c in stats are the ones the prior values
\* call for; a growth rate <<n, d>> stands for the fraction n / d
DeltaHolds(stats, prior, c) ==
    /\ ChangeName(c) \in DOMAIN stats
    /\ stats[ChangeName(c)] = stats[c] - prior[c]
    /\ (RateName(c) \in DOMAIN stats) <=> (prior[c] > 0)
    /\ prior[c] > 0 =>
          /\ stats[RateName(c)][2] > 0
          /\ stats[RateName(c)][1] * prior[c] =
                (stats[c] - prior[c]) * stats[RateName(c)][2]

\* C1: at no time do more than max_requests recorded request timestamps lie
\* inside the trailing window (now - window, now].  `recorded` holds every
\* recorded timestamp younger than the window, and every instant is `now` in
\* some state after all requests of that instant were recorded, so this
\* covers every trailing interval of length window.
C1_WindowNeverExceeded == Len(recorded) <= MaxRequests

\* the limiter was at capacity, slept until the oldest entry left the window
\* and a further request was recorded (the stale entry is still in the list)
C1_Witness ==
    /\ Len(recorded) = MaxRequests
    /\ Len(requests) = MaxRequests + 1
    /\ requests[1] = Window

C3_DeltaOnlyWithPrior ==
    \A i \in DOMAIN store : HasDerivedFields(store[i].stats) => HasPrior(i)

\* the first snapshot of a second repository was stored after a snapshot of
\* another repository and carries no derived field; a later snapshot does
C3_Witness ==
    /\ Len(store) >= 3
    /\ store[2].key # store[1].key
    /\ ~HasDerivedFields(store[2].stats)
    /\ HasDerivedFields(store[3].stats)

\* C4: in v4, an attempt whose repository fetch was answered with 404 or 403
\* leaves the target's key in failed_repos and returns no snapshot; an
\* attempt on a target whose key is in failed_repos issues no remote call
\* and returns no snapshot; and failed_repos only grows, so this holds for
\* every later attempt of the process.
C4_FailedTargetSkipped ==
    /\ [](prog = "v4" =>
            /\ last.result = "failed" =>
                  last.key \in failed_repos /\ last.returned = 0
            /\ last.known_failed =>
                  last.calls = 0 /\ last.returned = 0)
    /\ [][failed_repos \subseteq failed_repos']_vars

\* in a later run the target that failed in the first run was attempted
\* again and skipped without a remote call
C4_Witness ==
    /\ prog = "v4"
    /\ runs >= 2
    /\ last.known_failed
    /\ last.result = "skipped"
    /\ last.calls = 0

\* C5: the sleep-and-retry after a reported rate-limit exhaustion is bounded,
\* so every collect that was started ends, also when the remote API keeps
\* reporting exhaustion.
C5_RetryEnds == (cpc # 0) ~> (cpc = 0)

\* C6: no snapshot is persisted in which a commit count is the zero that
\* stands for a fetch answered with rate-limit exhaustion.
C6_ExhaustionNeverMasked == ~masked

\* C7: every remote request issued during a collection went through
\* wait_if_needed and was recorded by record_request: no request was issued
\* without being recorded.
C7_EveryRequestRecorded == unrecorded = 0

\* C8: within a run no secondary target is visited before a primary one,
\* within a tier the targets are visited in registry order without gaps,
\* and a secondary target is visited only when every primary target was
\* visited (or the run was cancelled).
C8_PrimariesFirstInOrder ==
    /\ \A a, b \in DOMAIN visited :
          a < b =>
             /\ ~(visited[a] \in SecondaryPositions
                    /\ visited[b] \in PrimaryPositions)
             /\ (visited[a] \in PrimaryPositions
                    <=> visited[b] \in PrimaryPositions)
                   => visited[a] < visited[b]
    /\ \A a \in DOMAIN visited :
          \A i \in 1..(visited[a] - 1) :
             (i \in PrimaryPositions <=> visited[a] \in PrimaryPositions)
                => i \in Range(visited)
    /\ Range(visited) \cap SecondaryPositions # {} =>
          PrimaryPositions \subseteq Range(visited) \/ ~running

\* the registry lists a secondary target before a primary one, and the run
\* visited the primary target first
C8_Witness ==
    /\ Len(crypto_repositories) = 2
    /\ ~crypto_repositories[1].is_primary
    /\ crypto_repositories[2].is_primary
    /\ visited = <<2, 1>>

\* C9: when a run of crypto_github_collector.py or main_crypto.py that was
\* not cancelled has ended, it visited no secondary target if the budget read
\* after the primary tier was <= number of secondary targets + 100, and
\* every secondary target otherwise.
C9_BudgetRule ==
    (/\ prog \in {"v1", "main"}
     /\ runs > 0
     /\ pc \in {"idle", "crashed"}
     /\ running
     /\ budget >= 0)
    => IF budget <= Cardinality(SecondaryPositions) + Margin
       THEN Range(visited) \cap SecondaryPositions = {}
       ELSE SecondaryPositions \subseteq Range(visited)

\* C10, as stated: with a remaining budget of 200 and a secondary batch of
\* 50 targets no secondary target is collected.
C10_ScenarioSkips ==
    (budget = ScenarioBudget /\ Cardinality(SecondaryPositions) = ScenarioBatch)
    => Range(visited) \cap SecondaryPositions = {}

\* C10, amended: with a remaining budget of 200 and a secondary batch of 50
\* targets the secondary tier is not skipped, and a run that returns without
\* having been cancelled has collected secondary targets.
C10_ScenarioEntersSecondaryTier ==
    (budget = ScenarioBudget /\ Cardinality(SecondaryPositions) = ScenarioBatch)
    => /\ pc # "finish"
       /\ (pc = "idle" /\ running) =>
             Range(visited) \cap SecondaryPositions # {}

\* a run read the budget 200 and then visited all 50 secondary targets
C10_Witness ==
    /\ budget = ScenarioBudget
    /\ Cardinality(SecondaryPositions) = ScenarioBatch
    /\ SecondaryPositions \subseteq Range(visited)
    /\ pc = "idle"

\* C11: when a run of v4's collect_all_repositories that was not cancelled
\* has returned, it visited either no secondary target or every secondary
\* target.
C11_TierNeverPartial ==
    (/\ prog = "v4"
     /\ runs > 0
     /\ pc = "idle"
     /\ running
     /\ budget >= 0)
    => \/ Range(visited) \cap SecondaryPositions = {}
       \/ SecondaryPositions \subseteq Range(visited)

\* C12: at every point of a run at most one collected snapshot is held
\* without having been handed to the store, and the collection of a further
\* target starts only when none is held.
C12_PersistedBeforeNext ==
    /\ [](Len(pending) <= 1)
    /\ [][(visited' # visited /\ visited' # << >>) => pending = << >>]_vars

\* the snapshot of the first target is in the store while the snapshot of
\* the second target is held for insertion
C12_Witness ==
    /\ Len(visited) = 2
    /\ Len(store) = 1
    /\ Len(pending) = 1
    /\ store[1].key = crypto_repositories[visited[1]].key
    /\ pending[1].snap.key = crypto_repositories[visited[2]].key

\* C13: once the signal handler has cleared running, no further target's
\* collection is started in the run (a snapshot already collected may still
\* be persisted).
C13_NoStartAfterSignal ==
    [][~running => (visited' = visited \/ visited' = << >>)]_vars

\* a run was cancelled in the primary tier: the snapshot of the first primary
\* target is in the store, the other targets were not started, the run has
\* returned
C13_Witness ==
    /\ ~running
    /\ pc = "idle"
    /\ runs > 0
    /\ Len(visited) = 1
    /\ Len(store) = 1
    /\ Cardinality(PrimaryPositions) = 2

\* C14: a run of collect_all_repositories starts only when no run is in
\* progress; a trigger that became due during a run starts its run after
\* that run has returned.
C14_RunsNeverOverlap ==
    [][runs' # runs => (pc = "idle" /\ pending = << >>)]_vars

\* the job became due during the first run, and the second run was started
\* after the first one had returned
C14_Witness ==
    /\ runs = 2
    /\ job_due
    /\ pc = "primary"
    /\ Len(store) >= 2

\* C15: the needs_update written by an observation is true if there was no
\* record, or the stored needs_update was true, or the stored
\* profile_updated is missing or at least the cache duration old, and false
\* otherwise.
C15_RefreshDecision ==
    [][event'.op = "observe" =>
          \A j \in DOMAIN event'.written :
             LET existing == contributors[event'.written[j]] IN
                contributors'[event'.written[j]].needs_update =
                   (\/ ~existing.exists
                    \/ existing.needs_update
                    \/ existing.profile_updated = Never
                    \/ existing.profile_updated >= CONTRIBUTOR_CACHE_DAYS)]_vars

\* C16: get_user is called for a contributor only if the last successful
\* get_user for that contributor is at least the cache duration old (or
\* there was none).
C16_NoRefetchWithinTTL ==
    [][event'.op = "get_user" =>
          fetched[event'.username] \in {Never, CONTRIBUTOR_CACHE_DAYS}]_vars

\* a contributor whose profile was fetched less than the cache duration ago
\* has been observed again and is not flagged
C16_Witness ==
    /\ event.op = "observe"
    /\ \E j \in DOMAIN event.written :
          /\ fetched[event.written[j]] \in 1..(CONTRIBUTOR_CACHE_DAYS - 1)
          /\ ~contributors[event.written[j]].needs_update

\* C17: a failed get_user leaves the record with profile_updated = now,
\* needs_update = false and the error stored; a pass selects flagged
\* records only, and only an observation flags a record.
C17_FailedIsMarkedUpdated ==
    [][/\ (event'.op = "get_user" /\ ~event'.ok) =>
             /\ contributors'[event'.username].profile_updated = 0
             /\ ~contributors'[event'.username].needs_update
             /\ contributors'[event'.username].profile_error
       /\ event'.op = "find" =>
             \A j \in DOMAIN cursor' : contributors[cursor'[j]].needs_update
       /\ \A u \in DOMAIN contributors :
             (~contributors[u].needs_update /\ contributors'[u].needs_update)
                => event'.op = "observe"]_vars

\* a pass has selected another contributor and not the one whose only
\* fetch failed
C17_Witness ==
    /\ event.op = "find"
    /\ cursor # << >>
    /\ \E u \in DOMAIN contributors :
          /\ contributors[u].profile_error
          /\ fetched[u] = Never
          /\ ~contributors[u].needs_update
          /\ u \notin Range(cursor)

\* C18: a collection writes a prefix of the repository's contributor
\* listing, of at most MAX_CONTRIBUTORS_PER_REPO records; no contributor
\* behind that bound in the listing ever gets a record from that repository.
C18_TopContributorsOnly ==
    /\ event.op = "observe" =>
          /\ Len(event.written) <= MAX_CONTRIBUTORS_PER_REPO
          /\ Len(event.written) <= Len(api_listing)
          /\ \A j \in DOMAIN event.written : event.written[j] = api_listing[j]
    /\ \A u \in DOMAIN contributors :
          contributors[u].exists =>
             \E j \in 1..MAX_CONTRIBUTORS_PER_REPO :
                j <= Len(api_listing) /\ api_listing[j] = u

\* a listing longer than the bound has been collected and the bound was
\* reached
C18_Witness ==
    /\ event.op = "observe"
    /\ Len(api_listing) > MAX_CONTRIBUTORS_PER_REPO
    /\ Len(event.written) = MAX_CONTRIBUTORS_PER_REPO

\* C19: a complete aggregation that directly follows a complete
\* aggregation over the same window (no snapshot inserted, no time passed
\* in between) leaves the daily collection as it was.
C19_AggregationIdempotent ==
    [][agg_event'.nth = 2 => daily_repo_stats' = daily_repo_stats]_vars

\* the second of two aggregations has run, over a group of two snapshots
\* with different counters
C19_Witness ==
    /\ agg_event.nth = 2
    /\ \E id \in DOMAIN daily_repo_stats :
          /\ daily_repo_stats[id].date = DateToString(now)
          /\ daily_repo_stats[id].metrics.stars_start
                # daily_repo_stats[id].metrics.stars_end

\* C20: after a complete run of ChartDataAggregator.create_daily_aggregations
\* every (project, repository, date) with a snapshot in the window has its
\* aggregate under the composite key, with first and last stars and forks,
\* their change, the maximum of commits_last_24h, the mean of
\* unique_contributors_7d and the number of snapshots.
C20_AggregatePerGroup ==
    (agg_event.op = "chart" /\ agg_event.ok) =>
       \A target \in AggTargets, date \in 0..(MaxTime \div TicksPerDay) :
          LET InGroup(s) ==
                 /\ s.target = target
                 /\ s.timestamp \div TicksPerDay = date
                 /\ date >= (now \div TicksPerDay) - agg_event.days_back
              members == SelectSeq(repo_stats, InGroup)
              id == CompositeKey([date |-> <<ToString(date)>>,
                                  coin_id |-> target.coin_id,
                                  owner |-> target.owner,
                                  name |-> target.name])
              n == Len(members)
          IN members # << >> =>
                /\ id \in DOMAIN daily_repo_stats
                /\ LET doc == daily_repo_stats[id] IN
                      /\ doc.metrics.stars_start = members[1].stats.stars
                      /\ doc.metrics.forks_start = members[1].stats.forks
                      /\ doc.metrics.stars_end = members[n].stats.stars
                      /\ doc.metrics.forks_end = members[n].stats.forks
                      /\ doc.metrics.stars_change =
                            members[n].stats.stars - members[1].stats.stars
                      /\ \A i \in 1..n : doc.metrics.max_commits_24h >=
                                  members[i].activity.commits_last_24h
                      /\ \E i \in 1..n : doc.metrics.max_commits_24h =
                                  members[i].activity.commits_last_24h
                      /\ doc.metrics.avg_contributors_7d[1] * n =
                            doc.metrics.avg_contributors_7d[2] *
                               SumAll([i \in 1..n |->
                                  members[i].activity.unique_contributors_7d])
                      /\ doc.data_points = n

\* C21: after a complete aggregation of crypto_github_collector_v4 every
\* stored daily aggregate has the stars of the earliest snapshot of its
\* repository and date as stars_start and those of the latest as stars_end.
C21_FirstAndLastOfTheDate ==
    (prog = "v4" /\ agg_event.op = "collector" /\ agg_event.ok) =>
       \A id \in DOMAIN daily_repo_stats :
          LET doc == daily_repo_stats[id]
              OfTheDate(s) == /\ s.repo = doc.repo_info
                              /\ DateToString(s.timestamp) = doc.date
              members == SelectSeq(repo_stats, OfTheDate)
          IN /\ doc.metrics.stars_start = members[1].stats.stars
             /\ doc.metrics.stars_end = members[Len(members)].stats.stars

\* C22 as stated: an aggregation whose pipeline has no result, the store
\* answering, leaves the daily collection as it was and returns 0 without
\* raising.
C22_EmptyWindowReturnsZero ==
    [][(/\ agg_event'.op \in {"chart", "collector"}
        /\ agg_event'.store_ok
        /\ agg_event'.results = 0)
       => (/\ agg_event'.ok
           /\ daily_repo_stats' = daily_repo_stats
           /\ agg_event'.returned = {0})]_vars

\* C22 amended: an aggregation whose pipeline has no result, the store
\* answering, leaves the daily collection as it was and completes without
\* raising; ChartDataAggregator's returns 0, a collector's returns no value.
C22_EmptyWindowWritesNothing ==
    [][(/\ agg_event'.op \in {"chart", "collector"}
        /\ agg_event'.store_ok
        /\ agg_event'.results = 0)
       => (/\ agg_event'.ok
           /\ daily_repo_stats' = daily_repo_stats
           /\ agg_event'.returned =
                 IF agg_event'.op = "chart" THEN {0} ELSE {})]_vars

\* a collector's aggregation found nothing in its window while snapshots
\* and aggregates of an earlier day were stored
C22_Witness ==
    /\ agg_event.op = "collector"
    /\ agg_event.ok
    /\ agg_event.results = 0
    /\ repo_stats # << >>
    /\ daily_repo_stats # << >>

\* C27: raw snapshots are append-only: every step, a collection's insert
\* or an aggregation, leaves the stored snapshots as a prefix of the
\* collection after it, so none is modified or deleted.
C27_RawSnapshotsAppendOnly ==
    [][/\ Len(repo_stats') >= Len(repo_stats)
       /\ SubSeq(repo_stats', 1, Len(repo_stats)) = repo_stats]_vars

\* a second snapshot was inserted after an aggregation had written an
\* aggregate from the first
C27_Witness ==
    /\ agg_event.op = "insert"
    /\ Len(repo_stats) = 2
    /\ daily_repo_stats # << >>

\* a GitHub-style URL: host github.com with owner and repository path
\* segments
GithubStyle(url) ==
    /\ Netloc(url) = <<"github.com">>
    /\ LET segments == Split(Strip(Path(url), {"/"}), "/")
       IN Len(segments) >= 2 /\ segments[1] # << >> /\ segments[2] # << >>

\* C23: once the registry is built, every project with a GitHub-style
\* URL in its list has exactly one primary target in it.
C23_OnePrimaryPerProject ==
    pc = "idle" =>
       \A i \in DOMAIN projects :
          (\E k \in DOMAIN projects[i].github :
              GithubStyle(projects[i].github[k]))
          => Cardinality({ j \in DOMAIN crypto_repositories :
                             /\ crypto_repositories[j].coin_id =
                                   projects[i].coin_id
                             /\ crypto_repositories[j].is_primary }) = 1

\* C24: when no URL of the catalog parses to a github.com owner and
\* repository, construction ends in exit status 1 and no run is started.
C24_FatalExitWithoutTargets ==
    (/\ pc # "constructing"
     /\ \A i \in DOMAIN projects : \A k \in DOMAIN projects[i].github :
           ~GithubStyle(projects[i].github[k]))
    => (exit_status = <<1>> /\ pc = "exited" /\ runs = 0)

\* construction has ended for a catalog of two projects with three URLs,
\* none of them usable
C24_Witness ==
    /\ exit_status = <<1>>
    /\ Len(projects) = 2
    /\ Len(projects[1].github) + Len(projects[2].github) = 3
    /\ projects[2].github # << >>
    /\ projects[2].github[1] # << >>

\* C25: the step that persists the snapshot of a target never ends the run:
\* whether insert_one succeeds or fails, the tier goes on with the next
\* target.
C25_PersistFailureKeepsTier ==
    [][(pending # << >> /\ pending' = << >>) => pc' = pc]_vars

\* C26: the time spent in the activity fetches of a collection does not
\* move the timestamp of its snapshot: the timestamp is not later than the
\* start of these fetches.
C26_TimestampBeforeActivity ==
    collection.step = "returned" =>
       repo_stats[Len(repo_stats)].timestamp <= collection.activity_at

\* C28: when a run of collect_all_repositories (v4, v1) has returned, it
\* has called create_daily_aggregations exactly once, after the last target
\* it visited, and generate_contributor_summary after that exactly when
\* contributor tracking is enabled (v4).
C28_AggregationOncePerRun ==
    (prog # "main" /\ pc = "idle" /\ runs > 0) =>
       /\ Len(SelectSeq(trail, LAMBDA c :
                            c.call = "create_daily_aggregations")) = 1
       /\ trail[1] = [call |-> "create_daily_aggregations",
                      visits |-> Len(visited)]
       /\ (Len(trail) = 2) = (prog = "v4" /\ tracking)
       /\ Len(trail) = 2 => trail[2].call = "generate_contributor_summary"
       /\ Len(trail) <= 2

\* a run of v4 with tracking disabled has returned after its secondary
\* tier was skipped
C28_Witness ==
    /\ prog = "v4"
    /\ ~tracking
    /\ pc = "idle"
    /\ runs > 0
    /\ budget = LowBudget - 1
    /\ Len(visited) = 1
    /\ Len(trail) = 1

\* C29: once a signal has set running to False during a run of
\* collect_all_repos of main.py, no step of that run starts the collection
\* of a further repository.
C29_NoCollectionAfterShutdown ==
    [][(~running /\ pc = "primary") => Len(visited') <= Len(visited)]_vars

\* C30: in continuous mode, once running is False no further run is
\* started after the first, and run_continuous ends: unless the run in
\* progress raises, it leaves its loop with the store connection closed.
C30_ContinuousModeStops ==
    /\ [][(~running /\ runs > 0) => runs' = runs]_vars
    /\ (~running ~> ((pc = "stopped" /\ ~connected) \/ pc = "crashed"))

\* run_continuous has returned after a signal that arrived during the
\* first run, while a trigger of the scheduler was due
C30_Witness ==
    /\ pc = "stopped"
    /\ ~connected
    /\ ~running
    /\ runs = 1
    /\ job_due
    /\ Len(visited) = 1

\* C31: when wait_if_needed returns, fewer than max_requests recorded
\* timestamps lie within the trailing window; it has slept once, d ticks
\* with d no longer than the window, and if it slept at all then exactly
\* until the oldest in-window entry had left the window.
C31_WaitLeavesRoom ==
    [][(mpc = "wait" /\ mpc' = "call") =>
         /\ Len(InWindow(requests')) < MaxRequests
         /\ \E d \in 0..Window :
               /\ requests' = Elapse(InWindow(requests), d)
               /\ d > 0 =>
                     /\ Len(InWindow(requests)) >= MaxRequests
                     /\ \E i \in DOMAIN InWindow(requests) :
                           /\ InWindow(requests)[i] + d = Window
                           /\ \A j \in DOMAIN InWindow(requests) :
                                 InWindow(requests)[j] <=
                                    InWindow(requests)[i]]_vars

\* wait_if_needed has returned after a sleep: the list still holds
\* max_requests entries, so it was at capacity after pruning, and the
\* oldest of them has left the window
C31_Witness ==
    /\ mpc = "call"
    /\ Len(requests) = MaxRequests
    /\ Len(InWindow(requests)) < MaxRequests

\* C32: with the limiter of crypto_github_collector.py no more than
\* max_requests gated calls are released within any trailing window, and
\* the timestamp recorded for a call (the last entry of the list when
\* _check_rate_limit returns) is not earlier than the moment of release.
C32_SlidingWindowHolds ==
    /\ [](Len(recorded) <= MaxRequests)
    /\ [][(mpc = "wait" /\ mpc' = "call") =>
             requests'[Len(requests')] = 0]_vars

\* C33: within one run the collection of every registry target is started
\* at most once, and a collection is repeated for the same target only
\* after a reported rate-limit exhaustion, never after another failure.
C33_NoRetryWithinRun ==
    /\ \A i, j \in DOMAIN visited : visited[i] = visited[j] => i = j
    /\ (attempt = 1 /\ pc # "crashed") => last.result = "retry"

\* the collection of the first primary target failed with a transient
\* error and the loop has moved past the target without repeating it
C33_Witness ==
    /\ pc = "primary"
    /\ visited = <<1>>
    /\ last.result \in {"error", "raised"}
    /\ attempt = 0
    /\ idx = 2

\* the commits of `author` among the commits looked at
CommitsOf(looked_at, author) ==
    Cardinality({i \in DOMAIN looked_at : looked_at[i] = author})

\* the position of the first commit of `author`
Discovery(looked_at, author) ==
    CHOOSE i \in DOMAIN looked_at :
        /\ looked_at[i] = author
        /\ \A j \in 1..(i - 1) : looked_at[j] # author

\* author b stands before author a in the ranking: more commits, or as
\* many and discovered earlier
RanksBefore(looked_at, b, a) ==
    \/ CommitsOf(looked_at, b) > CommitsOf(looked_at, a)
    \/ /\ CommitsOf(looked_at, b) = CommitsOf(looked_at, a)
       /\ Discovery(looked_at, b) < Discovery(looked_at, a)

\* C34: the ranking is built from the first N commits of the 7-day listing,
\* counts each authored commit for its author and is ordered by descending
\* commit count, ties in order of first appearance; the top-contributor
\* list of the returned snapshot is a prefix of it and
\* unique_contributors_7d is its length.
C34_RankingOfSnapshot ==
    collection.step = "returned" =>
        LET looked_at == Take(collection.commits, CommitSample)
            authors == {looked_at[i] : i \in DOMAIN looked_at} \ {0}
            top == collection.activity.top_contributors_7d
        IN  /\ collection.activity.unique_contributors_7d =
                  Cardinality(authors)
            /\ Len(top) = Min(TopShown, Cardinality(authors))
            /\ \A i \in DOMAIN top :
                  /\ top[i].username \in authors
                  /\ top[i].commits = CommitsOf(looked_at, top[i].username)
                  /\ Cardinality({b \in authors :
                        RanksBefore(looked_at, b, top[i].username)}) = i - 1

\* the name in https://github.com/b/<name> or https://github.com/b/<name>.git
NameOf(url) ==
    LET last_part == SubSeq(url, Len(GithubPrefix) + 3, Len(url))
        n == Len(last_part) - Len(GitSuffix)
    IN  IF n >= 1 /\ SubSeq(last_part, n + 1, Len(last_part)) = GitSuffix
        THEN SubSeq(last_part, 1, n)
        ELSE last_part

\* C35: for a URL https://github.com/<owner>/<name> with or without a
\* trailing '.git', _parse_github_url gives exactly (<owner>, <name>): the
\* registry built from a catalog with this one URL holds the one target
\* <owner>/<name>.
C35_ParseKeepsName ==
    pc # "constructing" =>
        /\ Len(crypto_repositories) = 1
        /\ crypto_repositories[1].owner = <<"b">>
        /\ crypto_repositories[1].name = NameOf(projects[1].github[1])

\* the persisted snapshots of repository k, in the order they were persisted
SnapshotsOf(k) == SelectSeq(store, LAMBDA s : s.key = k)

\* C36: every persisted snapshot but the first of its repository carries
\* the difference of its stars to the snapshot of the same repository
\* persisted immediately before it, so the stars_change of the second to
\* the last snapshot of a repository add up to last stars minus first
\* stars; and a collection that fails leaves the store, and the snapshots
\* waiting to be persisted, as they were.
C36_DeltaAgainstLastPersisted ==
    /\ [](\A k \in Keys :
            LET mine == SnapshotsOf(k)
                change == [i \in 1..(Len(mine) - 1) |->
                              mine[i + 1].stats["stars_change"]]
            IN  /\ \A i \in DOMAIN change :
                      change[i] = mine[i + 1].stats["stars"]
                                     - mine[i].stats["stars"]
                /\ mine # << >> =>
                      /\ "stars_change" \notin DOMAIN mine[1].stats
                      /\ SumAll(change) = mine[Len(mine)].stats["stars"]
                                             - mine[1].stats["stars"])
    /\ [][(last' # last /\ last'.result # "data") =>
             (store' = store /\ pending' = pending)]_vars

\* all runs have ended; three snapshots of one repository are persisted,
\* its star count having gone up and come down again, and fewer of another
\* repository, one of whose collections failed
C36_Witness ==
    /\ runs = DeltaRuns
    /\ pc = "idle"
    /\ \E k, f \in Keys :
          /\ Len(SnapshotsOf(k)) = 3
          /\ SnapshotsOf(k)[2].stats["stars_change"] > 0
          /\ SnapshotsOf(k)[3].stats["stars_change"] < 0
          /\ Len(SnapshotsOf(f)) = 2

\* C37: failed_repos only grows, and a target is added to it only by a
\* repository fetch answered with "not found" or "forbidden": never by a
\* rate-limit exhaustion or another error, so such a target is attempted
\* again on the next run.
C37_OnlyPermanentFailuresRemembered ==
    /\ [][failed_repos \subseteq failed_repos']_vars
    /\ [][failed_repos' # failed_repos => last'.cause = "http"]_vars


\* C38: a record flagged needs_update keeps the flag until
\* update_contributor_profiles has attempted get_user for it: the only step
\* that clears the flag of a contributor is a fetch attempt for that
\* contributor, never an observation.
C38_FlagKeptUntilFetch ==
    [][\A u \in DOMAIN contributors :
          (/\ contributors[u].exists
           /\ contributors[u].needs_update
           /\ ~contributors'[u].needs_update)
             => (event'.op = "get_user" /\ event'.username = u)]_vars


\* C39: the handler of RateLimitExceededException never fails by itself:
\* whatever reset time is reported, a collection never ends with an error
\* raised by the handler's sleep.
C39_HandlerNeverFails == last.result # "crash"


\* no record is flagged needs_update
NoneFlagged ==
    \A u \in DOMAIN contributors :
       ~(contributors[u].exists /\ contributors[u].needs_update)

\* C40: a pass of update_contributor_profiles(limit) selects at most `limit`
\* contributors, each once and each flagged needs_update, and none when no
\* record is flagged; every fetch attempt, successful or failed, is for the
\* next selected contributor and leaves its needs_update false.  Hence,
\* unless contributors are observed again and again, repeated passes lead
\* to a state where no contributor is flagged, and it stays so.
C40_PassesDrainFlagged ==
    /\ [][event'.op = "find" =>
             /\ Len(cursor') <= event'.username
             /\ \A i, j \in DOMAIN cursor' : cursor'[i] = cursor'[j] => i = j
             /\ \A i \in DOMAIN cursor' :
                   /\ contributors[cursor'[i]].exists
                   /\ contributors[cursor'[i]].needs_update
             /\ NoneFlagged => cursor' = << >>]_vars
    /\ [][event'.op = "get_user" =>
             /\ cursor # << >>
             /\ event'.username = Head(cursor)
             /\ cursor' = Tail(cursor)
             /\ ~contributors'[event'.username].needs_update]_vars
    /\ \/ []<><<event'.op = "observe">>_vars
       \/ <>[]NoneFlagged

\* two contributors were flagged; a pass with limit 1 attempted one of them,
\* a later pass the other, one fetch failed and one succeeded, and a
\* further pass has selected nobody
C40_Witness ==
    /\ event.op = "find"
    /\ event.username = 1
    /\ cursor = << >>
    /\ NoneFlagged
    /\ \A u \in DOMAIN contributors : contributors[u].exists
    /\ \E u, w \in DOMAIN contributors :
          /\ contributors[u].profile_error /\ fetched[u] = Never
          /\ ~contributors[w].profile_error /\ fetched[w] # Never

=============================================================================
